---- MODULE Spec2Model ----
(***************************************************************************)
(* Taxi-driver client: the order-pool reconciler of MapScreen              *)
(* (screens/home_screen.py), the API client (services/api_service_fixed.py)*)
(* and its retrying transport (_make_request).                             *)
(*                                                                         *)
(* The specifications share the module's variables:                        *)
(*   SpecPool  the MapScreen polling / order dialog state machine          *)
(*   SpecApi   the APIService session and its endpoint operations          *)
(*   SpecReq   one APIService._make_request call with its retry loop       *)
(*   SpecNorm  check_order_pool / get_current_orders as pure functions     *)
(*   SpecUrl   the operations that set the session's base URL              *)
(*   SpecCred  APIService.login with the texts of the login form           *)
(*   SpecFixed the MapScreen of screens/home_screen_fixed.py               *)
(*   SpecApp   the order monitoring threads of TaxiDriverApp (main.py)     *)
(*   SpecRound APIService across restarts of the application               *)
(*   SpecPoolLive  MapScreen while every poll finds an acceptable order    *)
(*   SpecLoc   LocationService: tracking, GPS fallback, simulation timer   *)
(*   SpecLogin LoginScreen: form validation, attempts, login threads       *)
(***************************************************************************)
EXTENDS Integers, Sequences, FiniteSets, TLC

VARIABLES
    \* ---- MapScreen (home_screen.py:136-143) ----
    driver_status,       \* self.driver_status
    show_pool_order,     \* self.show_pool_order
    current_pool_order,  \* self.current_pool_order (NoOrder for None)
    order_dialog,        \* self.order_dialog: "none" | "open" | "dismissed"
    pool_orders,         \* self.pool_orders
    open_dialogs,        \* the OrderDialog widgets on screen, oldest first
    pool_event,          \* self.pool_check_event is scheduled
    pool_inflight,       \* check_order_pool tasks suspended in the fetch
    emitted,             \* toasts / notifications of the last handler run
    last_op,             \* the handler that ran last, with what it saw
    \* ---- APIService (api_service_fixed.py:34-52) ----
    api,                 \* the service's session fields
    keyring,             \* the "taxi_driver" entries of the credential store
    api_call,            \* the last API call: what it sent and returned
    \* ---- one APIService._make_request call (api_service_fixed.py:75-168) ----
    rq_pc,               \* "idle" | "request" (inside the for loop) | "done"
    retries,             \* the local "retries" after the None default
    attempt,             \* the loop variable "attempt"
    slept,               \* the wait_time of every asyncio.sleep, in order
    history,             \* how each session.request of the call ended
    rq_result,           \* what the call returned or raised
    \* ---- response normalisation (api_service_fixed.py:570-627) ----
    norm,                \* the last normalised response and its result
    \* ---- MapScreen of home_screen_fixed.py (lines 145-155) ----
    fixed,               \* current_orders, current_pool_order, open dialogs
    \* ---- TaxiDriverApp (main.py:162-179) ----
    app,                 \* is_logged_in, order lists, monitoring threads
    \* ---- LocationService (location_service.py:32-41) ----
    loc,                 \* is_tracking, simulation_event, error_count, timers
    \* ---- LoginScreen (screens/login_screen.py:34-58) ----
    ls                   \* the form, login_attempts, the login threads

poolVars == <<driver_status, show_pool_order, current_pool_order, order_dialog,
              pool_orders, open_dialogs, pool_event, pool_inflight, emitted,
              last_op>>

apiVars == <<api, keyring, api_call>>

reqVars == <<rq_pc, retries, attempt, slept, history, rq_result>>

normVars == <<norm>>

fixedVars == <<fixed>>

appVars == <<app>>

locVars == <<loc>>

loginVars == <<ls>>

vars == <<poolVars, apiVars, reqVars, normVars, fixedVars, appVars, locVars,
          loginVars>>

----------------------------------------------------------------------------
(* Bounds and input universes *)

\* check_order_pool tasks that may be suspended in their fetch at once
MaxInFlight == 2

OrderIds == {1, 2}

\* order.get('status'): <<>> is "key absent", <<s>> is the string s
StatusValues == {<<>>, <<"">>, <<"NEW">>, <<"pending">>, <<"taken">>}

Orders == [id : OrderIds, status : StatusValues]

NoOrder == [id |-> 0, status |-> <<>>]

RECURSIVE SeqsUpTo(_, _)
SeqsUpTo(S, n) ==
    IF n = 0 THEN {<<>>}
    ELSE LET shorter == SeqsUpTo(S, n - 1)
         IN shorter \cup {Append(s, x) : s \in shorter, x \in S}

\* a pool snapshot: orders in server order, ids unique within the snapshot
Snapshots ==
    {s \in SeqsUpTo(Orders, Cardinality(OrderIds)) :
        \A i, j \in 1..Len(s) : i /= j => s[i].id /= s[j].id}

\* what api_service.check_order_pool() hands to MapScreen
PoolResponses ==
    {[success |-> TRUE, data |-> s] : s \in Snapshots}
        \cup {[success |-> FALSE, data |-> <<>>]}

----------------------------------------------------------------------------
(* Pure helpers of MapScreen.check_order_pool *)

\* str.lower() on the status strings that occur
Lower(s) ==
    CASE s = "NEW" -> "new"
      [] s = "New" -> "new"
      [] s = "PENDING" -> "pending"
      [] s = "Pending" -> "pending"
      [] OTHER -> s

\* mutant: the status is compared without lower()
IsAcceptable_NoLower(order) ==
    \/ order.status = <<>>
    \/ order.status = <<"">>
    \/ order.status[1] \in {"new", "pending"}

\* home_screen.py:268-269
IsAcceptable(order) ==
    \/ order.status = <<>>
    \/ order.status = <<"">>
    \/ Lower(order.status[1]) \in {"new", "pending"}

RECURSIVE FilterAcceptable(_)
FilterAcceptable(s) ==
    IF s = <<>> THEN <<>>
    ELSE IF IsAcceptable(Head(s))
         THEN <<Head(s)>> \o FilterAcceptable(Tail(s))
         ELSE FilterAcceptable(Tail(s))

\* mutant: only the first order of the snapshot is compared
CurrentOrderExists_FirstOnly(cur, snap) ==
    snap /= <<>> /\ snap[1].id = cur.id

\* mutant: the snapshot is only tested for being non-empty
CurrentOrderExists_AnyOrder(cur, snap) == snap /= <<>>

\* home_screen.py:252-255
CurrentOrderExists(cur, snap) ==
    \E i \in 1..Len(snap) : snap[i].id = cur.id

\* home_screen.py:250: "self.show_pool_order and self.current_pool_order"
DialogIsOpenCheck(show, cur) == show /\ cur /= NoOrder

\* mutant: the "not self.show_pool_order" guard is dropped
MayShowNew_NoGuard(snap, show) == snap /= <<>>

\* home_screen.py:264: "new_pool_orders and not self.show_pool_order"
MayShowNew(snap, show) == snap /= <<>> /\ ~show

RemoveAt(s, i) == SubSeq(s, 1, i - 1) \o SubSeq(s, i + 1, Len(s))

----------------------------------------------------------------------------
(* MapScreen *)

PoolIdle ==
    /\ driver_status = "offline"
    /\ show_pool_order = FALSE
    /\ current_pool_order = NoOrder
    /\ order_dialog = "none"
    /\ pool_orders = <<>>
    /\ open_dialogs = <<>>
    /\ pool_event = TRUE
    /\ pool_inflight = 0
    /\ emitted = <<>>
    /\ last_op = [op |-> "init"]

\* MapScreen.fetch_driver_status (home_screen.py:362-371); ok is the
\* truth of response.get('success')
fetch_driver_status(ok) ==
    /\ driver_status' = IF ok THEN "online" ELSE driver_status
    /\ emitted' = <<>>
    /\ last_op' = [op |-> "fetch_driver_status"]
    /\ UNCHANGED <<show_pool_order, current_pool_order, order_dialog,
                   pool_orders, open_dialogs, pool_event, pool_inflight>>
    /\ UNCHANGED <<apiVars, reqVars, normVars, fixedVars, appVars,
                   locVars, loginVars>>

\* mutant: the tick goes to the fetch whatever the driver status is
check_order_pool_sync_NoOfflineCheck ==
    /\ pool_event
    /\ pool_inflight < MaxInFlight
    /\ pool_inflight' = pool_inflight + 1
    /\ last_op' = [op |-> "poll_start"]
    /\ emitted' = <<>>
    /\ UNCHANGED <<driver_status, show_pool_order, current_pool_order,
                   order_dialog, pool_orders, open_dialogs, pool_event>>
    /\ UNCHANGED <<apiVars, reqVars, normVars, fixedVars, appVars,
                   locVars, loginVars>>

\* Clock tick: check_order_pool_sync starts check_order_pool, which runs to
\* the await
\* of api_service.check_order_pool() (home_screen.py:222-234)
check_order_pool_sync ==
    /\ pool_event
    /\ IF driver_status = "offline"
       THEN /\ UNCHANGED pool_inflight
            /\ last_op' = [op |-> "poll_offline"]
       ELSE /\ pool_inflight < MaxInFlight
            /\ pool_inflight' = pool_inflight + 1
            /\ last_op' = [op |-> "poll_start"]
    /\ emitted' = <<>>
    /\ UNCHANGED <<driver_status, show_pool_order, current_pool_order,
                   order_dialog, pool_orders, open_dialogs, pool_event>>
    /\ UNCHANGED <<apiVars, reqVars, normVars, fixedVars, appVars,
                   locVars, loginVars>>

\* MapScreen.show_order_dialog (home_screen.py:292-302)
show_order_dialog(order_data) ==
    /\ current_pool_order' = order_data
    /\ show_pool_order' = TRUE
    /\ open_dialogs' = Append(open_dialogs, order_data)
    /\ order_dialog' = "open"

\* MapScreen.close_order_dialog (home_screen.py:304-310); dismissing a dialog
\* the driver already dismissed changes nothing on screen
close_order_dialog ==
    /\ open_dialogs' = IF order_dialog = "open"
                       THEN SubSeq(open_dialogs, 1, Len(open_dialogs) - 1)
                       ELSE open_dialogs
    /\ order_dialog' = "none"
    /\ show_pool_order' = FALSE
    /\ current_pool_order' = NoOrder

\* MapScreen.check_order_pool after the fetch returned
\* (home_screen.py:236-290).  play_new_order_sound
\* (services/sound_service.py:114-162) holds no suspension point, so the
\* rest of the coroutine runs in one piece on the event loop.  transport
\* records how the request behind response went.
check_order_pool_returned(response, transport) ==
    /\ pool_inflight > 0
    /\ pool_inflight' = pool_inflight - 1
    /\ last_op' = [op |-> "poll", response |-> response,
                   show |-> show_pool_order, cur |-> current_pool_order,
                   same |-> (response.data = pool_orders),
                   transport |-> transport]
    /\ LET new_pool_orders == response.data
           acceptable_orders == FilterAcceptable(new_pool_orders)
       IN
       IF ~response.success
       THEN /\ emitted' = <<>>
            /\ UNCHANGED <<show_pool_order, current_pool_order, order_dialog,
                           pool_orders, open_dialogs>>
       ELSE IF /\ DialogIsOpenCheck(show_pool_order, current_pool_order)
               /\ ~CurrentOrderExists(current_pool_order, new_pool_orders)
       THEN \* lines 257-261: close, toast, return
            /\ close_order_dialog
            /\ emitted' = <<[type |-> "vanished", id |-> current_pool_order.id]>>
            /\ UNCHANGED pool_orders
       ELSE /\ IF /\ MayShowNew(new_pool_orders, show_pool_order)
                  /\ acceptable_orders /= <<>>
               THEN \* lines 272-285: sound, dialog, toast
                    /\ show_order_dialog(acceptable_orders[1])
                    /\ emitted' = <<[type |-> "new_order",
                                     id |-> acceptable_orders[1].id]>>
               ELSE /\ emitted' = <<>>
                    /\ UNCHANGED <<show_pool_order, current_pool_order,
                                   order_dialog, open_dialogs>>
            /\ pool_orders' = new_pool_orders
    /\ UNCHANGED <<driver_status, pool_event>>
    /\ UNCHANGED <<apiVars, reqVars, normVars, fixedVars, appVars,
                   locVars, loginVars>>

\* the fetch was answered with what the server's pool holds
MapScreen_check_order_pool(response) ==
    check_order_pool_returned(response, "answered")

\* The driver presses PRZYJMIJ on the i-th dialog on screen:
\* OrderDialog.accept_order -> accept_order_from_pool
\* (home_screen.py:115-119, 312-315)
OrderDialog_accept_order(i) ==
    /\ i \in 1..Len(open_dialogs)
    /\ open_dialogs' = RemoveAt(open_dialogs, i)
    /\ order_dialog' = IF order_dialog = "open" /\ i = Len(open_dialogs)
                       THEN "dismissed" ELSE order_dialog
    /\ emitted' = <<>>
    /\ last_op' = [op |-> "accept", id |-> open_dialogs[i].id]
    /\ UNCHANGED <<driver_status, show_pool_order, current_pool_order,
                   pool_orders, pool_event, pool_inflight>>
    /\ UNCHANGED <<apiVars, reqVars, normVars, fixedVars, appVars,
                   locVars, loginVars>>

\* The driver presses ODRZUC: OrderDialog.reject_order ->
\* reject_order_from_pool (home_screen.py:121-125, 317-320)
OrderDialog_reject_order(i) ==
    /\ i \in 1..Len(open_dialogs)
    /\ open_dialogs' = RemoveAt(open_dialogs, i)
    /\ order_dialog' = IF order_dialog = "open" /\ i = Len(open_dialogs)
                       THEN "dismissed" ELSE order_dialog
    /\ emitted' = <<[type |-> "rejected", id |-> open_dialogs[i].id]>>
    /\ last_op' = [op |-> "reject", id |-> open_dialogs[i].id]
    /\ UNCHANGED <<driver_status, show_pool_order, current_pool_order,
                   pool_orders, pool_event, pool_inflight>>
    /\ UNCHANGED <<apiVars, reqVars, normVars, fixedVars, appVars,
                   locVars, loginVars>>

\* MapScreen.logout (home_screen.py:408-417): the interval is cancelled;
\* tasks already suspended in their fetch are left to finish
MapScreen_logout ==
    /\ pool_event' = FALSE
    /\ emitted' = <<>>
    /\ last_op' = [op |-> "logout"]
    /\ UNCHANGED <<driver_status, show_pool_order, current_pool_order,
                   order_dialog, pool_orders, open_dialogs, pool_inflight>>
    /\ UNCHANGED <<apiVars, reqVars, normVars, fixedVars, appVars,
                   locVars, loginVars>>

----------------------------------------------------------------------------
(* MapScreen while every poll succeeds and finds an acceptable order *)

\* the pool answers that hold an acceptable order
AcceptablePoolResponses ==
    {r \in PoolResponses : r.success /\ FilterAcceptable(r.data) /= <<>>}

\* a pool fetch is answered with one of them
AnswerStep ==
    \E r \in AcceptablePoolResponses : MapScreen_check_order_pool(r)

\* the screen stays logged in: the steps of MapScreen without logout, the
\* fetches answered as above
NextPoolLive ==
    \/ \E ok \in BOOLEAN : fetch_driver_status(ok)
    \/ check_order_pool_sync
    \/ AnswerStep
    \/ \E i \in 1..MaxInFlight : OrderDialog_accept_order(i)
    \/ \E i \in 1..MaxInFlight : OrderDialog_reject_order(i)

----------------------------------------------------------------------------
(* Values shared by the API client *)

\* Python's None is <<>>, a present value v is <<v>>
None == <<>>
Some(v) == <<v>>

\* A URL text is, in this order: surrounding blanks (pad), a scheme
\* ("", "http://" or "https://"), a host and a run of trailing slashes.
\* A host is empty only in the empty text.
Url(pad, scheme, host, slashes) ==
    [pad |-> pad, scheme |-> scheme, host |-> host, slashes |-> slashes]

\* the empty string
EmptyUrl == Url(FALSE, "", "", 0)

\* "a or b" on optional URL texts: None and "" are falsy
Falsy(o) == o = None \/ o = Some(EmptyUrl)
OrElse(a, b) == IF Falsy(a) THEN b ELSE a

\* "not s" on an optional phone or password text
FalsyStr(o) == o = None \/ o = Some("")

\* api_service_fixed.py:37-40, 329-332, 406-409, 443-446
DefaultBaseUrl ==
    Url(FALSE, "https://",
        "e6db2f06-15c4-4633-bd30-7fbd9c8200b1-00-l2xqyupphiyt.riker.replit.dev",
        0)

Phones == {"+48111222333"}
Passwords == {"pw", "other"}
BaseUrlArgs == {None, Some(Url(FALSE, "https://", "taxi.example", 0))}

\* JSON values carry their Python type
JNull == [t |-> "null"]
JBool(b) == [t |-> "bool", v |-> b]
JNum(n) == [t |-> "num", v |-> n]
JStr(x) == [t |-> "str", v |-> x]
JList(l) == [t |-> "list", v |-> l]
JDict(d) == [t |-> "dict", v |-> d]
JOptNum(o) == IF o = None THEN JNull ELSE JNum(o[1])
JOptStr(o) == IF o = None THEN JNull ELSE JStr(o[1])

\* Python truthiness
Truthy(j) ==
    CASE j.t = "null" -> FALSE
      [] j.t = "bool" -> j.v
      [] j.t = "num" -> j.v /= 0
      [] j.t = "str" -> j.v /= ""
      [] j.t = "list" -> j.v /= <<>>
      [] j.t = "dict" -> DOMAIN j.v /= {}

\* dict.get(key) and dict.get(key, default)
Get(d, key) == IF key \in DOMAIN d.v THEN d.v[key] ELSE JNull
GetOr(d, key, default) == IF key \in DOMAIN d.v THEN d.v[key] ELSE default

IsStr(j, x) == j.t = "str" /\ j.v = x

\* str(value) of a message field, for results whose message is a str
MessageText(j) == IF j.t = "str" THEN j.v ELSE "<non-string>"

OrderList == JList(<<7, 8>>)

\* JSON bodies the backend may answer with
ResponseBodies ==
    << JDict([success |-> JBool(TRUE), data |-> OrderList]),
       JDict([status |-> JStr("success"), orders |-> OrderList]),
       JDict([success |-> JBool(TRUE), orders |-> OrderList]),
       JDict([success |-> JBool(TRUE),
              data |-> JDict([id |-> JNum(15), name |-> JStr("Jan")])]),
       JDict([driver |-> JDict([id |-> JNum(15)])]),
       JDict([success |-> JBool(TRUE)]),
       JDict([success |-> JBool(FALSE), message |-> JStr("odmowa")]),
       JDict(<<>>),
       OrderList >>

\* What one aiohttp request of _fetch_with_logging can end in
\* (api_service_fixed.py:372-390): an exception, a JSON body (its index in
\* ResponseBodies), or a body of another content type with response.ok
FetchOutcomes ==
    {[kind |-> "error", ok |-> FALSE, body |-> 0]}
        \cup {[kind |-> "json", ok |-> TRUE, body |-> i] :
                 i \in DOMAIN ResponseBodies}
        \cup {[kind |-> "text", ok |-> b, body |-> 0] : b \in BOOLEAN}

\* _fetch_with_logging's "data" (api_service_fixed.py:377-387)
FetchData(outcome) ==
    IF outcome.kind = "json" THEN ResponseBodies[outcome.body]
    ELSE JDict([success |-> JBool(outcome.ok), message |-> JStr("<text>")])

----------------------------------------------------------------------------
(* APIService: session *)

\* APIService.__init__ (api_service_fixed.py:34-52)
NewService ==
    [is_logged_in |-> FALSE, base_url |-> Some(DefaultBaseUrl),
     auth_header |-> None, phone |-> None, password |-> None,
     driver_id |-> None]

EmptyKeyring == [phone |-> None, password |-> None, api_url |-> None]

\* 'Basic ' + base64(phone + ':' + password)  (api_service_fixed.py:335-337)
BasicAuth(ph, pw) == <<"Basic", ph, pw>>

\* mutant: a header already set is kept instead of being recomputed
initialize_StaleHeader(svc, ph, pw, url) ==
    [svc EXCEPT !.phone = Some(ph),
                !.password = Some(pw),
                !.base_url = OrElse(url, Some(DefaultBaseUrl)),
                !.auth_header = IF @ = None THEN Some(BasicAuth(ph, pw))
                                ELSE @]

\* APIService.initialize (api_service_fixed.py:323-340)
initialize(svc, ph, pw, url) ==
    [svc EXCEPT !.phone = Some(ph),
                !.password = Some(pw),
                !.base_url = OrElse(url, Some(DefaultBaseUrl)),
                !.auth_header = Some(BasicAuth(ph, pw))]

\* mutant: the auth header survives the reset
reset_KeepsAuthHeader(svc) ==
    [svc EXCEPT !.is_logged_in = FALSE, !.base_url = None,
                !.phone = None, !.password = None, !.driver_id = None]

\* APIService.reset (api_service_fixed.py:357-365)
reset(svc) ==
    [svc EXCEPT !.is_logged_in = FALSE, !.base_url = None,
                !.auth_header = None, !.phone = None, !.password = None,
                !.driver_id = None]

OrderPath(path, order_id) == [path |-> path, id |-> order_id]
Path(path) == OrderPath(path, 0)

Request(method, url, endpoint, auth) ==
    [method |-> method, base |-> url, endpoint |-> endpoint, auth |-> auth]

\* mutant: the is_logged_in test is left out
auth_fetch_NoLoginCheck(svc, endpoint, method, outcome) ==
    LET url == OrElse(svc.base_url, Some(DefaultBaseUrl))
    IN [response |-> IF outcome.kind = "error"
                     THEN JDict([success |-> JBool(FALSE),
                                 message |-> JStr("<error>")])
                     ELSE FetchData(outcome),
        http |-> <<Request(method, url[1], endpoint, svc.auth_header)>>,
        base_url |-> url]

\* mutant: the fallback base URL is assigned before the login test
auth_fetch_DefaultUrlFirst(svc, endpoint, method, outcome) ==
    LET url == OrElse(svc.base_url, Some(DefaultBaseUrl))
    IN IF ~svc.is_logged_in
       THEN [response |-> JDict([success |-> JBool(FALSE),
                                 message |-> JStr("Nie zalogowano")]),
             http |-> <<>>,
             base_url |-> url]
       ELSE [response |-> IF outcome.kind = "error"
                          THEN JDict([success |-> JBool(FALSE),
                                      message |-> JStr("<error>")])
                          ELSE FetchData(outcome),
             http |-> <<Request(method, url[1], endpoint, svc.auth_header)>>,
             base_url |-> url]

\* APIService._auth_fetch (api_service_fixed.py:392-429): what it returns,
\* the requests it issues and the base_url it leaves behind
auth_fetch(svc, endpoint, method, outcome) ==
    IF ~svc.is_logged_in
    THEN [response |-> JDict([success |-> JBool(FALSE),
                              message |-> JStr("Nie zalogowano")]),
          http |-> <<>>,
          base_url |-> svc.base_url]
    ELSE LET url == OrElse(svc.base_url, Some(DefaultBaseUrl))
         IN [response |-> IF outcome.kind = "error"
                          THEN JDict([success |-> JBool(FALSE),
                                      message |-> JStr("<error>")])
                          ELSE FetchData(outcome),
             http |-> <<Request(method, url[1], endpoint, svc.auth_header)>>,
             base_url |-> url]

\* the "except Exception as error" result of an endpoint method when the
\* body is not a dict and response.get raises
Raised == [success |-> FALSE, message |-> "<exception>"]

----------------------------------------------------------------------------
(* APIService: endpoint methods, as functions of what _auth_fetch returned *)

\* APIService.get_driver_profile (api_service_fixed.py:526-563); the
\* fallback profile is cut to its id, phone and status
get_driver_profile(svc, response) ==
    IF response.t /= "dict" THEN Raised
    ELSE IF Truthy(Get(response, "success")) /\ Truthy(Get(response, "data"))
    THEN [success |-> TRUE, data |-> Get(response, "data")]
    ELSE IF IsStr(Get(response, "status"), "success")
            /\ Truthy(Get(response, "data"))
    THEN [success |-> TRUE, data |-> Get(response, "data")]
    ELSE IF Truthy(Get(response, "driver"))
    THEN [success |-> TRUE, data |-> Get(response, "driver")]
    ELSE [success |-> TRUE,
          data |-> JDict([id |-> JOptNum(svc.driver_id),
                          phone |-> JOptStr(svc.phone),
                          status |-> JStr("online")])]

\* mutant: the pool check without its third shape (success with "orders")
check_order_pool_TwoShapes(response) ==
    IF response.t /= "dict" THEN Raised @@ [data |-> JList(<<>>)]
    ELSE IF Truthy(Get(response, "success"))
            /\ Get(response, "data").t = "list"
    THEN [success |-> TRUE, data |-> Get(response, "data")]
    ELSE IF IsStr(Get(response, "status"), "success")
            /\ Get(response, "orders").t = "list"
    THEN [success |-> TRUE, data |-> Get(response, "orders")]
    ELSE [success |-> TRUE, data |-> JList(<<>>)]

\* APIService.check_order_pool (api_service_fixed.py:570-603)
check_order_pool(response) ==
    IF response.t /= "dict" THEN Raised @@ [data |-> JList(<<>>)]
    ELSE IF Truthy(Get(response, "success"))
            /\ Get(response, "data").t = "list"
    THEN [success |-> TRUE, data |-> Get(response, "data")]
    ELSE IF IsStr(Get(response, "status"), "success")
            /\ Get(response, "orders").t = "list"
    THEN [success |-> TRUE, data |-> Get(response, "orders")]
    ELSE IF Truthy(Get(response, "success")) /\ Truthy(Get(response, "orders"))
    THEN [success |-> TRUE, data |-> Get(response, "orders")]
    ELSE [success |-> TRUE, data |-> JList(<<>>)]

\* APIService.get_current_orders (api_service_fixed.py:606-627)
get_current_orders(response) ==
    IF response.t /= "dict" THEN Raised @@ [data |-> JList(<<>>)]
    ELSE IF Truthy(Get(response, "success"))
            /\ Get(response, "data").t = "list"
    THEN [success |-> TRUE, data |-> Get(response, "data")]
    ELSE IF IsStr(Get(response, "status"), "success")
            /\ Get(response, "orders").t = "list"
    THEN [success |-> TRUE, data |-> Get(response, "orders")]
    ELSE [success |-> TRUE, data |-> JList(<<>>)]

\* the "else" result shared by the order actions: the response's message or
\* the method's default text (Polish letters written without diacritics)
Refused(response, default) ==
    [success |-> FALSE,
     message |-> MessageText(GetOr(response, "message", JStr(default)))]

\* APIService.accept_order (api_service_fixed.py:630-651)
accept_order(order_id, response) ==
    IF response.t /= "dict" THEN Raised
    ELSE IF Truthy(Get(response, "success"))
    THEN [success |-> TRUE, order_id |-> order_id]
    ELSE Refused(response, "Blad akceptacji")

\* APIService.start_order (api_service_fixed.py:653-673)
start_order(order_id, response) ==
    IF response.t /= "dict" THEN Raised
    ELSE IF Truthy(Get(response, "success")) THEN [success |-> TRUE]
    ELSE Refused(response, "Blad rozpoczecia")

\* APIService.complete_order (api_service_fixed.py:675-695)
complete_order(order_id, response) ==
    IF response.t /= "dict" THEN Raised
    ELSE IF Truthy(Get(response, "success")) THEN [success |-> TRUE]
    ELSE Refused(response, "Blad zakonczenia")

\* APIService.cancel_order (api_service_fixed.py:697-721), reason ""
cancel_order(order_id, response) ==
    IF response.t /= "dict" THEN Raised
    ELSE IF Truthy(Get(response, "success"))
    THEN [success |-> TRUE, reason |-> ""]
    ELSE Refused(response, "Blad anulowania")

\* APIService.get_order_details (api_service_fixed.py:724-741)
get_order_details(order_id, response) ==
    IF response.t /= "dict" THEN Raised
    ELSE IF Truthy(Get(response, "success"))
    THEN [success |-> TRUE, data |-> Get(response, "data")]
    ELSE [success |-> FALSE, message |-> "Zlecenie nie znalezione"]

\* APIService.get_order_storage_details (api_service_fixed.py:743-779);
\* the fixed fallback payload is cut to its id and addresses
get_order_storage_details(order_id, response) ==
    IF response.t /= "dict" THEN Raised
    ELSE IF Truthy(Get(response, "success"))
    THEN [success |-> TRUE, data |-> Get(response, "data")]
    ELSE [success |-> TRUE,
          data |-> JDict([id |-> JNum(order_id),
                          pickup_address |-> JStr("ul. Magazynowa 1"),
                          destination_address |-> JStr("ul. Docelowa 2")])]

\* APIService.update_driver_status (api_service_fixed.py:782-803)
update_driver_status(response) ==
    IF response.t /= "dict" THEN Raised
    ELSE IF Truthy(Get(response, "success")) THEN [success |-> TRUE]
    ELSE Refused(response, "Blad aktualizacji statusu")

\* mutant: the location update reports success whatever came back
update_location_AlwaysOk(response) == [success |-> TRUE]

\* APIService.update_location (api_service_fixed.py:806-830)
update_location(response) ==
    IF response.t /= "dict" THEN Raised
    ELSE IF Truthy(Get(response, "success")) THEN [success |-> TRUE]
    ELSE Refused(response, "Blad aktualizacji lokalizacji")

\* the authenticated operations, each with its HTTP method
AuthOps ==
    {"get_driver_profile", "check_order_pool", "get_current_orders",
     "accept_order", "start_order", "complete_order", "cancel_order",
     "get_order_details", "get_order_storage_details",
     "update_driver_status", "update_location"}

OrderOps ==
    {"accept_order", "start_order", "complete_order", "cancel_order",
     "get_order_details", "get_order_storage_details"}

Method(op) ==
    IF op \in {"accept_order", "start_order", "complete_order",
               "cancel_order", "update_driver_status", "update_location"}
    THEN "POST" ELSE "GET"

\* the endpoint paths of api_service_fixed.py:532-813, with the order id
\* that fills "{id}"; order_id is 0 for the operations that take none
Endpoint(op, order_id) ==
    CASE op = "get_driver_profile" -> Path("/api/driver2/profile")
      [] op = "check_order_pool" -> Path("/api/driver2/15/pool")
      [] op = "get_current_orders" -> Path("/api/driver2/orders/current")
      [] op = "accept_order" -> OrderPath("/api/driver2/orders/{id}/accept", order_id)
      [] op = "start_order" -> OrderPath("/api/driver2/orders/{id}/start", order_id)
      [] op = "complete_order" -> OrderPath("/api/driver2/orders/{id}/complete", order_id)
      [] op = "cancel_order" -> OrderPath("/api/driver2/orders/{id}/cancel", order_id)
      [] op = "get_order_details" -> OrderPath("/api/driver2/orders/{id}", order_id)
      [] op = "get_order_storage_details" -> OrderPath("/api/driver2/order_storage/{id}", order_id)
      [] op = "update_driver_status" -> Path("/api/driver2/status")
      [] op = "update_location" -> Path("/api/driver2/location")

EndpointResult(svc, op, order_id, response) ==
    CASE op = "get_driver_profile" -> get_driver_profile(svc, response)
      [] op = "check_order_pool" -> check_order_pool(response)
      [] op = "get_current_orders" -> get_current_orders(response)
      [] op = "accept_order" -> accept_order(order_id, response)
      [] op = "start_order" -> start_order(order_id, response)
      [] op = "complete_order" -> complete_order(order_id, response)
      [] op = "cancel_order" -> cancel_order(order_id, response)
      [] op = "get_order_details" -> get_order_details(order_id, response)
      [] op = "get_order_storage_details" ->
            get_order_storage_details(order_id, response)
      [] op = "update_driver_status" -> update_driver_status(response)
      [] op = "update_location" -> update_location(response)

----------------------------------------------------------------------------
(* APIService: actions *)

ApiIdle ==
    /\ api = NewService
    /\ keyring = EmptyKeyring
    /\ api_call = [op |-> "none"]

\* the outcomes the request of _auth_fetch can have: none is drawn when the
\* login gate returns before any request is made
OutcomesFor(svc) ==
    IF svc.is_logged_in THEN FetchOutcomes
    ELSE {[kind |-> "error", ok |-> FALSE, body |-> 0]}

\* how the request of a call went: "none" when none was sent, "error" for
\* an exception of session.request (connection refused, timeout),
\* "http_error" for an answer that is neither JSON nor response.ok
Transport(svc, outcome) ==
    IF ~svc.is_logged_in THEN "none"
    ELSE IF outcome.kind = "error" THEN "error"
    ELSE IF ~outcome.ok THEN "http_error"
    ELSE "ok"

\* One call of an authenticated endpoint method
EndpointCall(op, order_id) ==
    \E outcome \in OutcomesFor(api) :
       LET fetched == auth_fetch(api, Endpoint(op, order_id), Method(op),
                                 outcome)
       IN /\ api' = [api EXCEPT !.base_url = fetched.base_url]
          /\ api_call' = [op |-> op, logged |-> api.is_logged_in,
                          http |-> fetched.http,
                          transport |-> Transport(api, outcome),
                          result |-> EndpointResult(api, op, order_id,
                                                    fetched.response)]
          /\ UNCHANGED keyring
          /\ UNCHANGED <<poolVars, reqVars, normVars, fixedVars, appVars,
                         locVars, loginVars>>

----------------------------------------------------------------------------
(* MapScreen.check_order_pool when the pool request fails *)

\* the session MapScreen polls with: logged in
PollingService ==
    [initialize(NewService, "+48111222333", "pw", None)
        EXCEPT !.is_logged_in = TRUE, !.driver_id = Some(15)]

\* the pool request raises (connection refused, timeout), or is answered
\* with an HTTP error page, or with {success: false, message}
FailedPoolOutcomes ==
    {o \in FetchOutcomes :
        \/ o.kind = "error"
        \/ o.kind = "text" /\ ~o.ok
        \/ o.kind = "json" /\ o.body = 7}

\* api_service.check_order_pool() on a request that ended in outcome, as
\* MapScreen reads it: response.get('success'), response['data']
FailedPoolResponse(outcome) ==
    LET fetched == auth_fetch(PollingService, Endpoint("check_order_pool", 0),
                              Method("check_order_pool"), outcome)
        result == check_order_pool(fetched.response)
    IN [success |-> result.success, data |-> result.data.v]

\* MapScreen.check_order_pool (home_screen.py:234-290) when its pool
\* request ended in one of FailedPoolOutcomes
MapScreen_check_order_pool_failed(outcome) ==
    check_order_pool_returned(
        FailedPoolResponse(outcome),
        IF outcome.kind = "error" THEN "error" ELSE "answered_error")

\* the steps of MapScreen
NextPool ==
    \/ \E ok \in BOOLEAN : fetch_driver_status(ok)
    \/ check_order_pool_sync
    \/ \E r \in PoolResponses : MapScreen_check_order_pool(r)
    \/ \E o \in FailedPoolOutcomes : MapScreen_check_order_pool_failed(o)
    \/ \E i \in 1..MaxInFlight : OrderDialog_accept_order(i)
    \/ \E i \in 1..MaxInFlight : OrderDialog_reject_order(i)
    \/ MapScreen_logout

\* mutant: the base URL is never written to the store
save_credentials_NoUrl(kr, ph, pw, url, stored) ==
    [phone |-> IF stored >= 1 THEN Some(ph) ELSE kr.phone,
     password |-> IF stored >= 2 THEN Some(pw) ELSE kr.password,
     api_url |-> kr.api_url]

\* APIService.save_credentials (api_service_fixed.py:260-276); the store
\* raises at the (stored+1)-th set_password when stored < 3
save_credentials(kr, ph, pw, url, stored) ==
    [phone |-> IF stored >= 1 THEN Some(ph) ELSE kr.phone,
     password |-> IF stored >= 2 THEN Some(pw) ELSE kr.password,
     api_url |-> IF stored >= 3 /\ ~Falsy(url) THEN url ELSE kr.api_url]

\* the status check answered with a truthy "success"
\* (api_service_fixed.py:470-472)
AnswersSuccess(outcome) ==
    /\ outcome.kind /= "error"
    /\ FetchData(outcome).t = "dict"
    /\ Truthy(Get(FetchData(outcome), "success"))

\* The body of APIService.login (api_service_fixed.py:432-500) run on the
\* session svc; op names the public method the caller invoked
login_body(op, svc, ph, pw, url, outcome) ==
    LET login_base_url ==
            OrElse(OrElse(url, svc.base_url), Some(DefaultBaseUrl))
        inited == initialize(svc, ph, pw, login_base_url)
        sent == <<Request("GET", login_base_url[1],
                          Path("/api/driver2/status/check"),
                          inited.auth_header)>>
        response_data == FetchData(outcome)
        called == [op |-> op, logged |-> api.is_logged_in, http |-> sent,
                   answered |-> AnswersSuccess(outcome)]
    IN /\ IF outcome.kind = "error" \/ response_data.t /= "dict"
          THEN /\ api' = inited
               /\ api_call' = called @@
                       [stored |-> 0,
                        result |-> [success |-> FALSE,
                                    message |-> "Blad polaczenia"]]
               /\ UNCHANGED keyring
          ELSE IF Truthy(Get(response_data, "success"))
          THEN /\ api' = [inited EXCEPT !.is_logged_in = TRUE,
                                        !.driver_id = Some(15)]
               /\ \E stored \in 0..3 :
                     /\ keyring' = save_credentials(keyring, ph, pw,
                                                    login_base_url, stored)
                     /\ api_call' = called @@
                          [stored |-> stored,
                           result |-> [success |-> TRUE,
                                       message |-> "Logowanie pomyslne",
                                       data |-> [driver_id |-> 15,
                                                 phone |-> ph,
                                                 base_url |->
                                                    login_base_url[1]]]]
          ELSE /\ api' = inited
               /\ api_call' = called @@
                       [stored |-> 0,
                        result |-> Refused(response_data, "Blad logowania")]
               /\ UNCHANGED keyring

\* APIService.login called by the service's own methods
login_as(op, svc, ph, pw, url, outcome) ==
    /\ login_body(op, svc, ph, pw, url, outcome)
    /\ UNCHANGED <<poolVars, reqVars, normVars, fixedVars, appVars,
                   locVars, loginVars>>

\* APIService.login (api_service_fixed.py:432-500)
login(ph, pw, url, outcome) == login_as("login", api, ph, pw, url, outcome)

\* mutant: a saved phone alone counts as saved credentials
load_saved_credentials_PhoneOnly(kr, read_ok) ==
    IF read_ok /\ ~FalsyStr(kr.phone)
    THEN Some([phone |-> kr.phone[1],
               password |-> IF kr.password = None THEN ""
                            ELSE kr.password[1]])
    ELSE None

\* what APIService.load_saved_credentials returns
\* (api_service_fixed.py:222-237); read_ok is false when the store raises
load_saved_credentials(kr, read_ok) ==
    IF read_ok /\ ~FalsyStr(kr.phone) /\ ~FalsyStr(kr.password)
    THEN Some([phone |-> kr.phone[1], password |-> kr.password[1]])
    ELSE None

\* the request of auto_login's login: none is drawn when there is nothing
\* to log in with
AutoLoginOutcomes(credentials) ==
    IF credentials = None
    THEN {[kind |-> "error", ok |-> FALSE, body |-> 0]}
    ELSE FetchOutcomes

\* APIService.auto_login (api_service_fixed.py:239-258): with saved
\* credentials load_saved_credentials has run initialize without a base_url
\* before login is called
auto_login(read_ok) ==
    LET credentials == load_saved_credentials(keyring, read_ok)
    IN \E outcome \in AutoLoginOutcomes(credentials) :
          IF credentials = None
          THEN /\ api_call' =
                     [op |-> "auto_login", logged |-> api.is_logged_in,
                      http |-> <<>>, answered |-> FALSE, stored |-> 0,
                      read_ok |-> read_ok,
                      result |-> [success |-> FALSE,
                                  message |->
                                     "Brak zapisanych danych logowania"]]
               /\ UNCHANGED <<api, keyring>>
               /\ UNCHANGED <<poolVars, reqVars, normVars, fixedVars, appVars,
                              locVars, loginVars>>
          ELSE login_as("auto_login",
                        initialize(api, credentials[1].phone,
                                   credentials[1].password, None),
                        credentials[1].phone, credentials[1].password,
                        None, outcome)

\* APIService.logout (api_service_fixed.py:502-523); the store raises at
\* the (deleted+1)-th delete_password when deleted < 2
logout(deleted) ==
    \E outcome \in OutcomesFor(api) :
       LET fetched == auth_fetch(api, Path("/api/driver2/logout"), "POST",
                                 outcome)
       IN /\ keyring' = [keyring EXCEPT
                           !.phone = IF deleted >= 1 THEN None ELSE @,
                           !.password = IF deleted >= 2 THEN None ELSE @]
          /\ api' = reset(api)
          /\ api_call' = [op |-> "logout", logged |-> api.is_logged_in,
                          http |-> fetched.http, deleted |-> deleted,
                          result |-> [success |-> TRUE,
                                      message |-> "Wylogowano pomyslnie"]]
          /\ UNCHANGED <<poolVars, reqVars, normVars, fixedVars, appVars,
                         locVars, loginVars>>

NextApi ==
    \/ \E op \in AuthOps :
          EndpointCall(op, IF op \in OrderOps THEN 7 ELSE 0)
    \/ \E ph \in Phones, pw \in Passwords, url \in BaseUrlArgs,
          o \in FetchOutcomes :
          login(ph, pw, url, o)
    \/ \E deleted \in 0..2 : logout(deleted)
    \/ \E read_ok \in BOOLEAN : auto_login(read_ok)

----------------------------------------------------------------------------
(* APIService: the base URL *)

\* the longest run of trailing slashes in a URL argument
MaxSlashes == 2

\* the texts handed to change_base_url: "", " ", and taxi.example with or
\* without surrounding blanks, scheme and trailing slashes
UrlTexts ==
    {EmptyUrl, Url(TRUE, "", "", 0)}
        \cup {Url(pad, scheme, "taxi.example", n) :
                 pad \in BOOLEAN, scheme \in {"", "http://", "https://"},
                 n \in 0..MaxSlashes}

\* the base_url arguments of login in the base-URL specification
UrlLoginArgs ==
    {None, Some(Url(FALSE, "https://", "taxi.example", 0)),
     Some(Url(FALSE, "", "taxi.example", 1))}

\* the answers to login's status check in the base-URL specification:
\* an exception, {success: true} and {success: false, message}
UrlLoginOutcomes ==
    {o \in FetchOutcomes : o.kind = "error" \/ o.body \in {6, 7}}

\* str.strip()
strip(u) == [u EXCEPT !.pad = FALSE]

\* str.endswith('/') of a text without surrounding blanks
endswith_slash(u) == u.slashes > 0

\* formatted_url[:-1] of a text that ends with a slash
drop_last_char(u) == [u EXCEPT !.slashes = @ - 1]

\* startswith('http://') or startswith('https://')
startswith_scheme(u) == u.scheme \in {"http://", "https://"}

\* "formatted_url" of change_base_url (api_service_fixed.py:298-308)
formatted_url(new_base_url) ==
    LET stripped == strip(new_base_url)
        unslashed == IF endswith_slash(stripped)
                     THEN drop_last_char(stripped) ELSE stripped
    IN IF ~startswith_scheme(unslashed)
       THEN [unslashed EXCEPT !.scheme = "https://"]
       ELSE unslashed

\* APIService.change_base_url (api_service_fixed.py:292-321); an empty or
\* blank text raises ValueError, and so does a store that refuses the write
change_base_url(new_base_url, store_ok) ==
    /\ IF new_base_url = EmptyUrl \/ strip(new_base_url) = EmptyUrl
          \/ ~store_ok
       THEN /\ api_call' = [op |-> "change_base_url", raised |-> TRUE,
                            arg |-> new_base_url]
            /\ UNCHANGED <<api, keyring>>
       ELSE /\ keyring' = [keyring EXCEPT
                              !.api_url = Some(formatted_url(new_base_url))]
            /\ api' = [api EXCEPT
                          !.base_url = Some(formatted_url(new_base_url))]
            /\ api_call' = [op |-> "change_base_url", raised |-> FALSE,
                            arg |-> new_base_url]
    /\ UNCHANGED <<poolVars, reqVars, normVars, fixedVars, appVars,
                   locVars, loginVars>>

\* APIService.load_saved_api_url (api_service_fixed.py:278-290); read_ok
\* is false when the store raises
load_saved_api_url(read_ok) ==
    /\ IF read_ok /\ ~Falsy(keyring.api_url)
       THEN /\ api' = [api EXCEPT !.base_url = keyring.api_url]
            /\ api_call' = [op |-> "load_saved_api_url",
                            returned |-> keyring.api_url]
       ELSE /\ api_call' = [op |-> "load_saved_api_url", returned |-> None]
            /\ UNCHANGED api
    /\ UNCHANGED keyring
    /\ UNCHANGED <<poolVars, reqVars, normVars, fixedVars, appVars,
                   locVars, loginVars>>

NextUrl ==
    \/ \E u \in UrlTexts, store_ok \in BOOLEAN : change_base_url(u, store_ok)
    \/ \E read_ok \in BOOLEAN : load_saved_api_url(read_ok)
    \/ \E ph \in Phones, url \in UrlLoginArgs, o \in UrlLoginOutcomes :
          login(ph, "pw", url, o)
    \/ \E deleted \in 0..2 : logout(deleted)
    \/ \E read_ok \in BOOLEAN : auto_login(read_ok)

----------------------------------------------------------------------------
(* APIService.login called with the texts of the login form *)

\* the phone and password texts handed to login: a filled field and ""
CredPhones == Phones \cup {""}
CredPasswords == {"pw", ""}

NextCred ==
    \/ \E ph \in CredPhones, pw \in CredPasswords, o \in UrlLoginOutcomes :
          login(ph, pw, None, o)
    \/ \E deleted \in 0..2 : logout(deleted)
    \/ \E read_ok \in BOOLEAN : auto_login(read_ok)

----------------------------------------------------------------------------
(* APIService across restarts of the application *)

\* The application is started again: a new APIService is constructed
\* (api_service_fixed.py:34-52, main.py:215-217) over the credential store
\* the previous run left behind
APIService_new ==
    /\ api' = NewService
    /\ api_call' = [op |-> "new"]
    /\ UNCHANGED keyring
    /\ UNCHANGED <<poolVars, reqVars, normVars, fixedVars, appVars,
                   locVars, loginVars>>

NextRound ==
    \/ \E ph \in Phones, url \in BaseUrlArgs, o \in UrlLoginOutcomes :
          login(ph, "pw", url, o)
    \/ APIService_new
    \/ \E read_ok \in BOOLEAN : auto_login(read_ok)
    \/ \E deleted \in 0..2 : logout(deleted)

----------------------------------------------------------------------------
(* APIService._make_request: the retrying transport *)

\* self.max_retries (api_service_fixed.py:48)
max_retries == 3

\* self.retry_delay (api_service_fixed.py:49), in seconds
retry_delay == 1

\* the largest explicit "retries" argument tried
MaxRetriesArg == 2

\* the "retries" argument: None takes self.max_retries
RetriesArgs == {None} \cup {Some(n) : n \in 0..MaxRetriesArg}

HttpStatuses == {200, 401, 500}

\* what the body of a response is: a JSON object without or with an
\* "error" field, a JSON array, text that is not JSON under a JSON content
\* type, or a body of another content type (an HTML error page)
BodyKinds == {"dict", "dict_error", "list", "invalid_json", "not_json_type"}

\* the text of the "error" field of a "dict_error" body
ServerError == "bad credentials"

\* how one session.request can end: the connection fails, the 30 s
\* ClientTimeout expires, or a response arrives
RequestOutcomes ==
    {[kind |-> k, status |-> 0, body |-> "none"] :
        k \in {"client_error", "timeout"}}
        \cup {[kind |-> "response", status |-> st, body |-> b] :
                 st \in HttpStatuses, b \in BodyKinds}

\* an exception in flight: its class and the pieces of str(e)
Exc(class, message) ==
    [t |-> "raise", class |-> class, message |-> message, data |-> "none"]

\* "return response_data"
Returned(status, body) ==
    [t |-> "return", class |-> "none", message |-> <<ToString(status)>>,
     data |-> body]

NoResult == [t |-> "none", class |-> "none", message |-> <<>>, data |-> "none"]

\* the body of the inner "async with" (api_service_fixed.py:116-149):
\* response.json() raises aiohttp.ContentTypeError for a content type other
\* than application/json and json.JSONDecodeError for a malformed body
handle_response(outcome) ==
    IF outcome.body = "not_json_type"
    THEN Exc("ContentTypeError", <<"<unexpected mimetype>">>)
    ELSE IF outcome.body = "invalid_json"
    THEN Exc("APIConnectionError",
             <<"Invalid JSON response from ", "<endpoint>">>)
    ELSE IF outcome.status >= 400
    THEN IF outcome.body = "list"
         THEN Exc("AttributeError",
                  <<"'list' object has no attribute 'get'">>)
         ELSE LET error_msg ==
                      IF outcome.body = "dict_error" THEN <<ServerError>>
                      ELSE <<"HTTP ", ToString(outcome.status)>>
              IN IF outcome.status = 401
                 THEN Exc("APIAuthenticationError",
                          <<"Authentication failed: ">> \o error_msg)
                 ELSE Exc("APIConnectionError",
                          <<"API error ", ToString(outcome.status), ": ">>
                              \o error_msg)
    ELSE Returned(outcome.status, outcome.body)

\* the body of the "try" of one loop iteration (api_service_fixed.py:104-149)
try_body(outcome) ==
    IF outcome.kind = "client_error"
    THEN Exc("ClientConnectorError", <<"<cannot connect>">>)
    ELSE IF outcome.kind = "timeout"
    THEN Exc("TimeoutError", <<"<timeout>">>)
    ELSE handle_response(outcome)

\* mutant: only connection failures and timeouts are taken for retryable
IsClientOrTimeoutError_NetworkOnly(exc) ==
    exc.class \in {"ClientConnectorError", "TimeoutError"}

\* "except (aiohttp.ClientError, asyncio.TimeoutError)"
\* (api_service_fixed.py:151): ClientConnectorError and ContentTypeError
\* are subclasses of aiohttp.ClientError
IsClientOrTimeoutError(exc) ==
    exc.class \in {"ClientConnectorError", "ContentTypeError", "TimeoutError"}

\* mutant: the same delay before every retry
wait_time_Fixed(k) == retry_delay

\* wait_time = self.retry_delay * (2 ** attempt)  (api_service_fixed.py:156)
wait_time(k) == retry_delay * (2 ^ k)

ReqIdle ==
    /\ rq_pc = "idle"
    /\ retries = 0
    /\ attempt = 0
    /\ slept = <<>>
    /\ history = <<>>
    /\ rq_result = NoResult

\* entry of _make_request (api_service_fixed.py:75-101)
make_request(retries_arg) ==
    /\ rq_pc \in {"idle", "done"}
    /\ rq_pc' = "request"
    /\ retries' = IF retries_arg = None THEN max_retries ELSE retries_arg[1]
    /\ attempt' = 0
    /\ slept' = <<>>
    /\ history' = <<>>
    /\ rq_result' = NoResult
    /\ UNCHANGED <<poolVars, apiVars, normVars, fixedVars, appVars,
                   locVars, loginVars>>

\* one iteration of "for attempt in range(retries + 1)" with its except
\* clauses (api_service_fixed.py:103-165)
request_attempt(outcome) ==
    /\ rq_pc = "request"
    /\ history' = Append(history, outcome)
    /\ LET r == try_body(outcome)
       IN IF r.t = "return"
          THEN /\ rq_result' = r
               /\ rq_pc' = "done"
               /\ UNCHANGED <<attempt, slept>>
          ELSE IF IsClientOrTimeoutError(r)
          THEN IF attempt < retries
               THEN /\ slept' = Append(slept, wait_time(attempt))
                    /\ attempt' = attempt + 1
                    /\ UNCHANGED <<rq_pc, rq_result>>
               ELSE /\ rq_result' =
                          Exc("APIConnectionError",
                              <<"Failed after ", ToString(retries + 1),
                                " attempts: ">> \o r.message)
                    /\ rq_pc' = "done"
                    /\ UNCHANGED <<attempt, slept>>
          ELSE /\ rq_result' = Exc("APIConnectionError",
                                   <<"Unexpected error: ">> \o r.message)
               /\ rq_pc' = "done"
               /\ UNCHANGED <<attempt, slept>>
    /\ UNCHANGED retries
    /\ UNCHANGED <<poolVars, apiVars, normVars, fixedVars, appVars,
                   locVars, loginVars>>

AttemptStep == \E o \in RequestOutcomes : request_attempt(o)

NextReq ==
    \/ \E r \in RetriesArgs : make_request(r)
    \/ AttemptStep

----------------------------------------------------------------------------
(* Response normalisation of check_order_pool / get_current_orders *)

\* the longest order list a response carries
MaxListLen == 2

\* the order lists a backend response may carry (orders stand by their id)
OrderLists == SeqsUpTo({7, 8, 9}, MaxListLen)

NormShapes == 1..8

\* the response _auth_fetch hands to the method, by shape, for order list L
NormShape(i, L) ==
    CASE i = 1 -> JDict([success |-> JBool(TRUE), data |-> JList(L)])
      [] i = 2 -> JDict([status |-> JStr("success"), orders |-> JList(L)])
      [] i = 3 -> JDict([success |-> JBool(TRUE), orders |-> JList(L)])
      [] i = 4 -> JDict([success |-> JBool(FALSE)])
      [] i = 5 -> JDict([success |-> JBool(FALSE), data |-> JList(L)])
      [] i = 6 -> JDict(<<>>)
      [] i = 7 -> JDict([success |-> JBool(TRUE)])
      [] i = 8 -> JDict([success |-> JBool(FALSE),
                         message |-> JStr("<error>")])

NormIdle == norm = [op |-> "none", shape |-> 0, list |-> <<>>]

\* check_order_pool applied to what _auth_fetch returned
\* (api_service_fixed.py:579-603)
normalize_pool(i, L) ==
    /\ norm' = [op |-> "check_order_pool", shape |-> i, list |-> L,
                result |-> check_order_pool(NormShape(i, L))]
    /\ UNCHANGED <<poolVars, apiVars, reqVars, fixedVars, appVars,
                   locVars, loginVars>>

\* get_current_orders applied to what _auth_fetch returned
\* (api_service_fixed.py:612-627)
normalize_current(i, L) ==
    /\ norm' = [op |-> "get_current_orders", shape |-> i, list |-> L,
                result |-> get_current_orders(NormShape(i, L))]
    /\ UNCHANGED <<poolVars, apiVars, reqVars, fixedVars, appVars,
                   locVars, loginVars>>

NextNorm ==
    \/ \E i \in NormShapes, L \in OrderLists : normalize_pool(i, L)
    \/ \E i \in NormShapes, L \in OrderLists : normalize_current(i, L)

----------------------------------------------------------------------------
(* MapScreen of screens/home_screen_fixed.py *)

\* the longest current_orders list and the most order dialogs on screen
MaxCurrentOrders == 2
MaxFixedDialogs == 1

\* home_screen_fixed.py:305-309: "not order.get('status') or
\* order.get('status') == 'pending'"
FixedIsAcceptable(order) ==
    \/ order.status = <<>>
    \/ order.status = <<"">>
    \/ order.status[1] = "pending"

\* the orders safe_show_order_dialog is handed: acceptable_orders[0]
FixedOrders == {o \in Orders : FixedIsAcceptable(o)}

RECURSIVE FixedFilterAcceptable(_)
FixedFilterAcceptable(s) ==
    IF s = <<>> THEN <<>>
    ELSE IF FixedIsAcceptable(Head(s))
         THEN <<Head(s)>> \o FixedFilterAcceptable(Tail(s))
         ELSE FixedFilterAcceptable(Tail(s))

\* MapScreen.__init__ (home_screen_fixed.py:145-155)
\* location_requests: the requests the last handle_location_change made
\* the service send
FixedIdle ==
    fixed = [op |-> "init", current_orders |-> <<>>,
             current_pool_order |-> NoOrder, dialogs |-> <<>>,
             driver_status |-> "online", location_requests |-> <<>>]

\* "new_pool_orders = []  # Would come from API" (home_screen_fixed.py:286)
StubPoolOrders == <<>>

\* the try body of MapScreen.safe_check_order_pool
\* (home_screen_fixed.py:288-318) on the list new_pool_orders
safe_check_order_pool_body(scr, new_pool_orders) ==
    IF new_pool_orders = <<>> THEN scr
    ELSE LET still_exists ==
                 \E i \in 1..Len(new_pool_orders) :
                    new_pool_orders[i].id = scr.current_pool_order.id
             cur == IF scr.current_pool_order /= NoOrder /\ ~still_exists
                    THEN NoOrder
                    ELSE scr.current_pool_order
             acceptable_orders == FixedFilterAcceptable(new_pool_orders)
         IN IF acceptable_orders /= <<>> /\ cur = NoOrder
            THEN [scr EXCEPT !.current_pool_order = acceptable_orders[1],
                             !.dialogs = Append(@, acceptable_orders[1])]
            ELSE [scr EXCEPT !.current_pool_order = cur]

\* Clock tick: check_order_pool_sync -> safe_check_order_pool
\* (home_screen_fixed.py:272-321)
safe_check_order_pool ==
    /\ fixed' = [safe_check_order_pool_body(fixed, StubPoolOrders)
                    EXCEPT !.op = "check"]
    /\ UNCHANGED <<poolVars, apiVars, reqVars, normVars, appVars,
                   locVars, loginVars>>

\* MapScreen.safe_show_order_dialog (home_screen_fixed.py:323-339): an
\* OrderDialog for the order is opened
safe_show_order_dialog(order) ==
    /\ Len(fixed.dialogs) < MaxFixedDialogs
    /\ fixed' = [fixed EXCEPT !.op = "show",
                              !.dialogs = Append(@, order)]
    /\ UNCHANGED <<poolVars, apiVars, reqVars, normVars, appVars,
                   locVars, loginVars>>

\* PRZYJMIJ on the i-th dialog:
\* OrderDialog.safe_accept -> MapScreen.safe_accept_order -> dismiss
\* (home_screen_fixed.py:125-131, 341-351)
safe_accept_order(i) ==
    /\ i \in 1..Len(fixed.dialogs)
    /\ Len(fixed.current_orders) < MaxCurrentOrders
    /\ fixed' = [fixed EXCEPT
                    !.op = "accept",
                    !.current_orders = Append(@, fixed.dialogs[i]),
                    !.current_pool_order = NoOrder,
                    !.dialogs = RemoveAt(@, i)]
    /\ UNCHANGED <<poolVars, apiVars, reqVars, normVars, appVars,
                   locVars, loginVars>>

\* ODRZUC on the i-th dialog: OrderDialog.safe_reject ->
\* MapScreen.safe_reject_order -> dismiss
\* (home_screen_fixed.py:133-139, 353-360)
safe_reject_order(i) ==
    /\ i \in 1..Len(fixed.dialogs)
    /\ fixed' = [fixed EXCEPT !.op = "reject",
                              !.current_pool_order = NoOrder,
                              !.dialogs = RemoveAt(@, i)]
    /\ UNCHANGED <<poolVars, apiVars, reqVars, normVars, appVars,
                   locVars, loginVars>>

\* MapScreen.cleanup (home_screen_fixed.py:450-470); dialogs on screen are
\* left open
Fixed_cleanup ==
    /\ fixed' = [fixed EXCEPT !.op = "cleanup",
                              !.current_orders = <<>>,
                              !.current_pool_order = NoOrder]
    /\ UNCHANGED <<poolVars, apiVars, reqVars, normVars, appVars,
                   locVars, loginVars>>

\* MapScreen.safe_toggle_status (home_screen_fixed.py:362-374)
safe_toggle_status ==
    /\ fixed' = [fixed EXCEPT
                    !.op = "toggle",
                    !.driver_status =
                        IF @ = "online" THEN "offline" ELSE "online"]
    /\ UNCHANGED <<poolVars, apiVars, reqVars, normVars, appVars,
                   locVars, loginVars>>

\* the samples LocationService hands to its listeners: which of the keys
\* 'latitude' and 'longitude' the dict holds (none of them: an empty dict)
LocationSamples == [latitude : BOOLEAN, longitude : BOOLEAN]

\* MapScreen.safe_update_location (home_screen_fixed.py:256-270): the
\* thread runs api_service.update_location on the logged-in session
safe_update_location(outcome) ==
    auth_fetch(PollingService, Endpoint("update_location", 0),
               Method("update_location"), outcome).http

\* MapScreen.handle_location_change (home_screen_fixed.py:234-254), the
\* listener setup_services registers with the location service (219-221)
handle_location_change(location, outcome) ==
    /\ fixed' = [fixed EXCEPT
                    !.op = "location",
                    !.location_requests =
                        IF location.latitude /\ location.longitude
                        THEN safe_update_location(outcome)
                        ELSE <<>>]
    /\ UNCHANGED <<poolVars, apiVars, reqVars, normVars, appVars,
                   locVars, loginVars>>

NextFixed ==
    \/ safe_toggle_status
    \/ \E location \in LocationSamples, outcome \in FetchOutcomes :
          handle_location_change(location, outcome)
    \/ safe_check_order_pool
    \/ \E o \in FixedOrders : safe_show_order_dialog(o)
    \/ \E i \in 1..MaxFixedDialogs : safe_accept_order(i)
    \/ \E i \in 1..MaxFixedDialogs : safe_reject_order(i)
    \/ Fixed_cleanup

----------------------------------------------------------------------------
(* TaxiDriverApp: order monitoring (main.py) *)

\* _update_orders_async threads that may run at once
MaxAppThreads == 2

\* the id lists the server answers with, ids unique within a list
AppSnapshots ==
    {s \in SeqsUpTo(OrderIds, Cardinality(OrderIds)) :
        \A i, j \in 1..Len(s) : i /= j => s[i] /= s[j]}

\* what _auth_fetch hands to the endpoint method: the server's
\* {success: true, data: [...]} or, when the request raised,
\* {"success": False, "message": str(error)} (api_service_fixed.py:427-429)
AppResponse(list, failed) ==
    IF failed
    THEN JDict([success |-> JBool(FALSE), message |-> JStr("<error>")])
    ELSE JDict([success |-> JBool(TRUE), data |-> JList(list)])

Ids(list) == {list[i] : i \in 1..Len(list)}

NoThread == [pc |-> "none", new_orders |-> <<>>]

\* TaxiDriverApp.__init__ (main.py:162-179); present, notified and announced
\* record the run: the ids of the last pool answer, the ids announced by a
\* sound while in every pool answer since, and the ids the last step
\* announced
AppIdle ==
    app = [op |-> "init", is_logged_in |-> FALSE, scheduled |-> FALSE,
           current_orders |-> <<>>, order_pool |-> <<>>,
           threads |-> [t \in 1..MaxAppThreads |-> NoThread],
           present |-> {}, notified |-> {}, announced |-> {}]

\* TaxiDriverApp.on_login_success (main.py:345-368):
\* Clock.schedule_interval(self.safe_update_orders, 10)
on_login_success ==
    /\ ~app.is_logged_in
    /\ app' = [app EXCEPT !.op = "on_login_success",
                          !.is_logged_in = TRUE,
                          !.scheduled = TRUE,
                          !.announced = {}]
    /\ UNCHANGED <<poolVars, apiVars, reqVars, normVars, fixedVars,
                   locVars, loginVars>>

\* TaxiDriverApp.on_logout (main.py:370-399); threads already started run on
on_logout ==
    /\ app.is_logged_in
    /\ app' = [app EXCEPT !.op = "on_logout",
                          !.is_logged_in = FALSE,
                          !.scheduled = FALSE,
                          !.current_orders = <<>>,
                          !.order_pool = <<>>,
                          !.notified = {},
                          !.announced = {}]
    /\ UNCHANGED <<poolVars, apiVars, reqVars, normVars, fixedVars,
                   locVars, loginVars>>

\* Clock tick: TaxiDriverApp.safe_update_orders (main.py:409-421) starts a
\* thread on _update_orders_async
safe_update_orders(t) ==
    /\ app.scheduled
    /\ IF ~app.is_logged_in
       THEN app' = [app EXCEPT !.op = "tick_skipped", !.announced = {}]
       ELSE /\ app.threads[t].pc = "none"
            /\ app' = [app EXCEPT !.op = "safe_update_orders",
                                  !.threads[t].pc = "fetch",
                                  !.announced = {}]
    /\ UNCHANGED <<poolVars, apiVars, reqVars, normVars, fixedVars,
                   locVars, loginVars>>

\* _update_orders_async, first part (main.py:423-440): both requests have
\* been answered; self.current_orders is assigned, the pool answer is held
\* in the thread's new_orders
update_orders_fetch(t, current_response, pool_response) ==
    LET current_result == get_current_orders(current_response)
        pool_result == check_order_pool(pool_response)
        answered == Truthy(Get(pool_response, "success"))
        present == IF answered THEN Ids(pool_result.data.v)
                   ELSE app.present
    IN /\ app.threads[t].pc = "fetch"
       /\ app' = [app EXCEPT
                    !.op = "update_orders_fetch",
                    !.current_orders = IF current_result.success
                                       THEN current_result.data.v ELSE @,
                    !.threads[t] =
                        IF pool_result.success
                        THEN [pc |-> "compare",
                              new_orders |-> pool_result.data.v]
                        ELSE NoThread,
                    !.present = present,
                    !.notified = @ \cap present,
                    !.announced = {}]
       /\ UNCHANGED <<poolVars, apiVars, reqVars, normVars, fixedVars,
                      locVars, loginVars>>

\* _update_orders_async, main.py:442-448: the length test and the sound
update_orders_compare(t) ==
    LET new_orders == app.threads[t].new_orders
        announced == IF Len(new_orders) > Len(app.order_pool)
                     THEN Ids(new_orders) \ Ids(app.order_pool)
                     ELSE {}
    IN /\ app.threads[t].pc = "compare"
       /\ app' = [app EXCEPT !.op = "update_orders_compare",
                             !.threads[t].pc = "assign",
                             !.notified = @ \cup (announced \cap app.present),
                             !.announced = announced]
       /\ UNCHANGED <<poolVars, apiVars, reqVars, normVars, fixedVars,
                      locVars, loginVars>>

\* _update_orders_async, main.py:450-455: self.order_pool = new_orders, the
\* UI update is scheduled and the thread ends
update_orders_assign(t) ==
    /\ app.threads[t].pc = "assign"
    /\ app' = [app EXCEPT !.op = "update_orders_assign",
                          !.order_pool = app.threads[t].new_orders,
                          !.threads[t] = NoThread,
                          !.announced = {}]
    /\ UNCHANGED <<poolVars, apiVars, reqVars, normVars, fixedVars,
                   locVars, loginVars>>

NextApp ==
    \/ on_login_success
    \/ on_logout
    \/ \E t \in 1..MaxAppThreads : safe_update_orders(t)
    \/ \E t \in 1..MaxAppThreads, cur, pool \in AppSnapshots,
          cur_failed, pool_failed \in BOOLEAN :
          update_orders_fetch(t, AppResponse(cur, cur_failed),
                              AppResponse(pool, pool_failed))
    \/ \E t \in 1..MaxAppThreads : update_orders_compare(t)
    \/ \E t \in 1..MaxAppThreads : update_orders_assign(t)

----------------------------------------------------------------------------
(* LocationService (services/location_service.py) *)

\* self.max_errors (location_service.py:40)
max_errors == 10

\* the most simulation timers scheduled at once, and the error count up to
\* which errors are drawn
MaxTimers == 3
MaxErrorCount == 11

\* LocationService.__init__ (location_service.py:32-41); has_gps is the
\* module's HAS_GPS (15-21), scheduled counts the Clock events of
\* _update_simulated_location that are scheduled, simulation_event tells
\* whether self.simulation_event holds one of them
LocationService_new(has_gps) ==
    [op |-> "init", has_gps |-> has_gps, is_tracking |-> FALSE,
     gps_running |-> FALSE, simulation_event |-> FALSE, scheduled |-> 0,
     error_count |-> 0]

LocIdle == loc = LocationService_new(FALSE)

\* LocationService._start_location_simulation (location_service.py:183-208):
\* the built-in Warsaw sample is valid, listeners are notified, and
\* Clock.schedule_interval's event is assigned to self.simulation_event
loc_start_location_simulation(l) ==
    [l EXCEPT !.simulation_event = TRUE, !.scheduled = @ + 1]

\* LocationService.stop_location_updates (location_service.py:157-182)
loc_stop_location_updates(l) ==
    IF ~l.is_tracking THEN l
    ELSE [l EXCEPT !.is_tracking = FALSE,
                   !.gps_running = FALSE,
                   !.scheduled = IF l.simulation_event THEN @ - 1 ELSE @,
                   !.simulation_event = FALSE]

\* LocationService.start_simulated_location (location_service.py:374-385)
loc_start_simulated_location(l) ==
    IF ~l.simulation_event THEN loc_start_location_simulation(l) ELSE l

\* LocationService.handle_location_error (location_service.py:72-93)
loc_handle_location_error(l) ==
    LET counted == [l EXCEPT !.error_count = @ + 1]
    IN IF counted.error_count >= max_errors
       THEN loc_stop_location_updates(counted)
       ELSE IF counted.has_gps /\ ~counted.simulation_event
       THEN loc_start_simulated_location(counted)
       ELSE counted

\* LocationService.start_location_updates (location_service.py:129-156);
\* gps_fails: gps.configure / gps.start raises
loc_start_location_updates(l, gps_fails) ==
    IF l.is_tracking THEN l
    ELSE LET tracking == [l EXCEPT !.is_tracking = TRUE]
         IN IF tracking.has_gps
            THEN IF gps_fails
                 THEN loc_start_location_simulation(
                          loc_handle_location_error(tracking))
                 ELSE [tracking EXCEPT !.gps_running = TRUE]
            ELSE loc_start_location_simulation(tracking)

\* the service states within the bounds
LocBounded(l) == l.scheduled <= MaxTimers /\ l.error_count <= MaxErrorCount

\* start_location_updates / safe_start_location_updates
\* (location_service.py:64-70, 129-156)
start_location_updates(gps_fails) ==
    /\ gps_fails => loc.has_gps
    /\ LocBounded(loc_start_location_updates(loc, gps_fails))
    /\ loc' = [loc_start_location_updates(loc, gps_fails)
                  EXCEPT !.op = "start_location_updates"]
    /\ UNCHANGED <<poolVars, apiVars, reqVars, normVars, fixedVars, appVars,
                   loginVars>>

\* LocationService.stop_location_updates (location_service.py:157-182)
stop_location_updates ==
    /\ loc' = [loc_stop_location_updates(loc)
                  EXCEPT !.op = "stop_location_updates"]
    /\ UNCHANGED <<poolVars, apiVars, reqVars, normVars, fixedVars, appVars,
                   loginVars>>

\* LocationService._on_gps_status (location_service.py:261-274), called by
\* the GPS while it runs
on_gps_status(stype) ==
    /\ loc.gps_running
    /\ stype = "provider-disabled"
           => LocBounded(loc_handle_location_error(loc))
    /\ loc' = [(IF stype = "provider-disabled"
                THEN loc_handle_location_error(loc)
                ELSE loc) EXCEPT !.op = "on_gps_status"]
    /\ UNCHANGED <<poolVars, apiVars, reqVars, normVars, fixedVars, appVars,
                   loginVars>>

\* a scheduled Clock event fires: LocationService._update_simulated_location
\* (location_service.py:209-235) hands a simulated sample to the listeners
update_simulated_location ==
    /\ loc.scheduled > 0
    /\ loc' = [loc EXCEPT !.op = "update_simulated_location"]
    /\ UNCHANGED <<poolVars, apiVars, reqVars, normVars, fixedVars, appVars,
                   loginVars>>

\* LocationService.cleanup (location_service.py:410-426)
LocationService_cleanup ==
    /\ loc' = [loc_stop_location_updates(loc)
                  EXCEPT !.error_count = 0, !.op = "cleanup"]
    /\ UNCHANGED <<poolVars, apiVars, reqVars, normVars, fixedVars, appVars,
                   loginVars>>

NextLoc ==
    \/ \E gps_fails \in BOOLEAN : start_location_updates(gps_fails)
    \/ stop_location_updates
    \/ \E stype \in {"provider-enabled", "provider-disabled"} :
          on_gps_status(stype)
    \/ update_simulated_location
    \/ LocationService_cleanup

----------------------------------------------------------------------------
(* LoginScreen (screens/login_screen.py) *)

\* self.max_login_attempts (login_screen.py:49)
max_login_attempts == 5

\* the failed attempts in a row up to which login calls are drawn
MaxFailures == 6

\* the texts of the two form fields
FormPhones == {"", "+48111222333"}
FormPasswords == {"pw", "other"}

\* len(re.sub(r'[^\d+]', '', phone.strip()))  (login_screen.py:74-76)
CleanPhoneLen(phone) == IF phone = "" THEN 0 ELSE 12

\* len(password)  (login_screen.py:104)
PasswordLen(password) == IF password = "pw" THEN 2 ELSE 5

\* LoginScreen.validate_phone (login_screen.py:65-94)
validate_phone(phone) ==
    /\ phone /= ""
    /\ CleanPhoneLen(phone) >= 9
    /\ CleanPhoneLen(phone) <= 15

\* LoginScreen.validate_password (login_screen.py:96-117)
validate_password(password) ==
    /\ password /= ""
    /\ PasswordLen(password) >= 3

\* LoginScreen.validate_form (login_screen.py:119-131)
validate_form(scr) ==
    validate_phone(scr.phone) /\ validate_password(scr.password)

\* LoginScreen.__init__ (login_screen.py:34-58). thread is where the
\* _perform_login thread stands ("none" when none runs), clock the callbacks
\* handed to Clock.schedule_once and not yet run, oldest first; started tells
\* whether the last step started a login thread, failures counts the login
\* attempts that failed since the last one that succeeded
LoginScreen_new ==
    [op |-> "init", phone |-> "", password |-> "pw", login_attempts |-> 0,
     is_loading |-> FALSE, thread |-> "none", clock |-> <<>>,
     started |-> FALSE, failures |-> 0]

LoginIdle == ls = LoginScreen_new

\* mutant: the attempts are not checked before the thread is started
safe_handle_login_NoLockout(scr) ==
    IF ~validate_form(scr) THEN [scr EXCEPT !.started = FALSE]
    ELSE [scr EXCEPT !.is_loading = TRUE, !.thread = "login",
                     !.started = TRUE]

\* the try body of LoginScreen.safe_handle_login (login_screen.py:381-401)
safe_handle_login(scr) ==
    IF ~validate_form(scr) THEN [scr EXCEPT !.started = FALSE]
    ELSE IF scr.login_attempts >= max_login_attempts
    THEN [scr EXCEPT !.started = FALSE]
    ELSE [scr EXCEPT !.is_loading = TRUE, !.thread = "login",
                     !.started = TRUE]

\* the phone field's text changes: LoginScreen.on_phone_change
\* (login_screen.py:319-329)
on_phone_change(value) ==
    /\ ls' = [ls EXCEPT !.op = "on_phone_change", !.phone = value,
                        !.started = FALSE]
    /\ UNCHANGED <<poolVars, apiVars, reqVars, normVars, fixedVars, appVars,
                   locVars>>

\* LoginScreen.on_password_change (login_screen.py:331-341)
on_password_change(value) ==
    /\ ls' = [ls EXCEPT !.op = "on_password_change", !.password = value,
                        !.started = FALSE]
    /\ UNCHANGED <<poolVars, apiVars, reqVars, normVars, fixedVars, appVars,
                   locVars>>

\* ZALOGUJ is released (login_screen.py:273-278); set_loading(True) disables
\* the button until set_loading(False) runs (358-363)
LoginScreen_safe_handle_login ==
    /\ ~ls.is_loading
    /\ ls' = [safe_handle_login(ls) EXCEPT !.op = "safe_handle_login"]
    /\ UNCHANGED <<poolVars, apiVars, reqVars, normVars, fixedVars, appVars,
                   locVars>>

\* the thread's asyncio.run(self.api_service.login(self.phone,
\* self.password)) and the branch on result.get('success')
\* (login_screen.py:411-431): a failure schedules _handle_login_error
perform_login(outcome) ==
    /\ ls.thread = "login"
    /\ AnswersSuccess(outcome) \/ ls.failures < MaxFailures
    /\ login_body("login", api, ls.phone, ls.password, None, outcome)
    /\ ls' = IF api_call'.result.success
             THEN [ls EXCEPT !.op = "perform_login", !.thread = "save",
                             !.started = FALSE, !.failures = 0]
             ELSE [ls EXCEPT !.op = "perform_login", !.thread = "unload",
                             !.clock = Append(@, "error"),
                             !.started = FALSE, !.failures = @ + 1]
    /\ UNCHANGED <<poolVars, reqVars, normVars, fixedVars, appVars, locVars>>

\* asyncio.run raises in the thread: the except branch schedules
\* _handle_login_exception (login_screen.py:433-437)
perform_login_raises ==
    /\ ls.thread = "login"
    /\ ls.failures < MaxFailures
    /\ ls' = [ls EXCEPT !.op = "perform_login_raises", !.thread = "unload",
                        !.clock = Append(@, "exception"),
                        !.started = FALSE, !.failures = @ + 1]
    /\ UNCHANGED <<poolVars, apiVars, reqVars, normVars, fixedVars, appVars,
                   locVars>>

\* after a success the thread stores the form's texts and schedules
\* _handle_login_success (login_screen.py:416-426); the store raises at the
\* (stored+1)-th set_password when stored < 2
perform_login_save(stored) ==
    /\ ls.thread = "save"
    /\ keyring' = [keyring EXCEPT
                      !.phone = IF stored >= 1 THEN Some(ls.phone) ELSE @,
                      !.password =
                          IF stored >= 2 THEN Some(ls.password) ELSE @]
    /\ ls' = [ls EXCEPT !.op = "perform_login_save", !.thread = "unload",
                        !.clock = Append(@, "success"), !.started = FALSE]
    /\ UNCHANGED <<api, api_call>>
    /\ UNCHANGED <<poolVars, reqVars, normVars, fixedVars, appVars, locVars>>

\* "Always reset loading state": the thread's last statement schedules
\* set_loading(False) (login_screen.py:439)
perform_login_done ==
    /\ ls.thread = "unload"
    /\ ls' = [ls EXCEPT !.op = "perform_login_done", !.thread = "none",
                        !.clock = Append(@, "set_loading"),
                        !.started = FALSE]
    /\ UNCHANGED <<poolVars, apiVars, reqVars, normVars, fixedVars, appVars,
                   locVars>>

\* Clock runs the oldest scheduled callback:
\* LoginScreen._handle_login_success -> reset_login_attempts
\* (login_screen.py:441-447, 471-476)
handle_login_success ==
    /\ ls.clock /= <<>> /\ Head(ls.clock) = "success"
    /\ ls' = [ls EXCEPT !.op = "handle_login_success",
                        !.clock = Tail(@), !.login_attempts = 0,
                        !.started = FALSE]
    /\ UNCHANGED <<poolVars, apiVars, reqVars, normVars, fixedVars, appVars,
                   locVars>>

\* LoginScreen._handle_login_error (login_screen.py:449-459)
handle_login_error ==
    /\ ls.clock /= <<>> /\ Head(ls.clock) = "error"
    /\ ls' = [ls EXCEPT !.op = "handle_login_error",
                        !.clock = Tail(@), !.login_attempts = @ + 1,
                        !.started = FALSE]
    /\ UNCHANGED <<poolVars, apiVars, reqVars, normVars, fixedVars, appVars,
                   locVars>>

\* LoginScreen._handle_login_exception (login_screen.py:461-469)
handle_login_exception ==
    /\ ls.clock /= <<>> /\ Head(ls.clock) = "exception"
    /\ ls' = [ls EXCEPT !.op = "handle_login_exception",
                        !.clock = Tail(@), !.login_attempts = @ + 1,
                        !.started = FALSE]
    /\ UNCHANGED <<poolVars, apiVars, reqVars, normVars, fixedVars, appVars,
                   locVars>>

\* the scheduled set_loading(False) (login_screen.py:358-369, 439)
set_loading_false ==
    /\ ls.clock /= <<>> /\ Head(ls.clock) = "set_loading"
    /\ ls' = [ls EXCEPT !.op = "set_loading", !.clock = Tail(@),
                        !.is_loading = FALSE, !.started = FALSE]
    /\ UNCHANGED <<poolVars, apiVars, reqVars, normVars, fixedVars, appVars,
                   locVars>>

NextLogin ==
    \/ \E value \in FormPhones : on_phone_change(value)
    \/ \E value \in FormPasswords : on_password_change(value)
    \/ LoginScreen_safe_handle_login
    \/ \E outcome \in UrlLoginOutcomes : perform_login(outcome)
    \/ perform_login_raises
    \/ \E stored \in 0..2 : perform_login_save(stored)
    \/ perform_login_done
    \/ handle_login_success
    \/ handle_login_error
    \/ handle_login_exception
    \/ set_loading_false

----------------------------------------------------------------------------
(* Specifications *)

InitPool ==
    /\ PoolIdle
    /\ ApiIdle
    /\ ReqIdle
    /\ NormIdle
    /\ FixedIdle
    /\ AppIdle
    /\ LocIdle
    /\ LoginIdle

SpecPool == InitPool /\ [][NextPool]_vars

InitApi ==
    /\ ApiIdle
    /\ PoolIdle
    /\ ReqIdle
    /\ NormIdle
    /\ FixedIdle
    /\ AppIdle
    /\ LocIdle
    /\ LoginIdle

SpecApi == InitApi /\ [][NextApi]_vars

InitReq ==
    /\ ReqIdle
    /\ PoolIdle
    /\ ApiIdle
    /\ NormIdle
    /\ FixedIdle
    /\ AppIdle
    /\ LocIdle
    /\ LoginIdle

SpecReq == InitReq /\ [][NextReq]_vars

InitNorm ==
    /\ NormIdle
    /\ PoolIdle
    /\ ApiIdle
    /\ ReqIdle
    /\ FixedIdle
    /\ AppIdle
    /\ LocIdle
    /\ LoginIdle

SpecNorm == InitNorm /\ [][NextNorm]_vars

InitUrl ==
    /\ ApiIdle
    /\ PoolIdle
    /\ ReqIdle
    /\ NormIdle
    /\ FixedIdle
    /\ AppIdle
    /\ LocIdle
    /\ LoginIdle

SpecUrl == InitUrl /\ [][NextUrl]_vars

InitCred ==
    /\ ApiIdle
    /\ PoolIdle
    /\ ReqIdle
    /\ NormIdle
    /\ FixedIdle
    /\ AppIdle
    /\ LocIdle
    /\ LoginIdle

SpecCred == InitCred /\ [][NextCred]_vars

InitFixed ==
    /\ FixedIdle
    /\ PoolIdle
    /\ ApiIdle
    /\ ReqIdle
    /\ NormIdle
    /\ AppIdle
    /\ LocIdle
    /\ LoginIdle

SpecFixed == InitFixed /\ [][NextFixed]_vars

InitApp ==
    /\ AppIdle
    /\ PoolIdle
    /\ ApiIdle
    /\ ReqIdle
    /\ NormIdle
    /\ FixedIdle
    /\ LocIdle
    /\ LoginIdle

SpecApp == InitApp /\ [][NextApp]_vars

InitRound ==
    /\ ApiIdle
    /\ PoolIdle
    /\ ReqIdle
    /\ NormIdle
    /\ FixedIdle
    /\ AppIdle
    /\ LocIdle
    /\ LoginIdle

SpecRound == InitRound /\ [][NextRound]_vars

\* Clock.schedule_interval keeps calling check_order_pool_sync every 10 s
\* (home_screen.py:186) and every fetch is answered, so the coroutine
\* behind it is resumed
SpecPoolLive ==
    /\ InitPool
    /\ [][NextPoolLive]_vars
    /\ WF_vars(check_order_pool_sync)
    /\ WF_vars(AnswerStep)

\* HAS_GPS is fixed when the module is imported
InitLoc ==
    /\ \E has_gps \in BOOLEAN : loc = LocationService_new(has_gps)
    /\ PoolIdle
    /\ ApiIdle
    /\ ReqIdle
    /\ NormIdle
    /\ FixedIdle
    /\ AppIdle
    /\ LoginIdle

SpecLoc == InitLoc /\ [][NextLoc]_vars

InitLogin ==
    /\ LoginIdle
    /\ PoolIdle
    /\ ApiIdle
    /\ ReqIdle
    /\ NormIdle
    /\ FixedIdle
    /\ AppIdle
    /\ LocIdle

SpecLogin == InitLogin /\ [][NextLogin]_vars

\* every session.request ends: it answers, fails, or the ClientTimeout of
\* self.timeout seconds expires, and the event loop resumes the coroutine
SpecReqLive == SpecReq /\ WF_vars(AttemptStep)

----------------------------------------------------------------------------
(* Claims about the order-pool reconciler (SpecPool) *)

\* the acceptable subset as the specification words it: status absent,
\* empty, or "new"/"pending" in any letter case
SpecAcceptable(order) ==
    \/ order.status = <<>>
    \/ order.status = <<"">>
    \/ order.status[1] \in {"new", "New", "NEW", "pending", "Pending", "PENDING"}

RECURSIVE FirstSpecAcceptable(_)
FirstSpecAcceptable(s) ==
    IF s = <<>> THEN NoOrder
    ELSE IF SpecAcceptable(Head(s)) THEN Head(s)
         ELSE FirstSpecAcceptable(Tail(s))

IdInSnapshot(id, snap) == \E i \in 1..Len(snap) : snap[i].id = id

SuccessfulPoll == last_op.op = "poll" /\ last_op.response.success

\* C1: whatever the pool snapshots and however the poll fetches overlap, at
\* most one order dialog is on screen and at most one candidate is recorded
\* as shown.
C1_AtMostOneDialog ==
    /\ Len(open_dialogs) <= 1
    /\ (open_dialogs /= <<>> => /\ show_pool_order
                                /\ current_pool_order = open_dialogs[1])

\* C1 witness: a dialog is on screen while two poll fetches are in flight.
C1_Witness ==
    /\ Len(open_dialogs) = 1
    /\ show_pool_order
    /\ pool_inflight >= 2

\* C2: a successful poll whose snapshot holds no order with the shown
\* candidate's id emits exactly one "vanished" event for it and leaves the
\* reconciler Idle: no dialog, flag false, no current candidate.
C2_VanishedOnceThenIdle ==
    (/\ SuccessfulPoll
     /\ last_op.show
     /\ last_op.cur /= NoOrder
     /\ ~IdInSnapshot(last_op.cur.id, last_op.response.data))
    => /\ emitted = <<[type |-> "vanished", id |-> last_op.cur.id]>>
       /\ ~show_pool_order
       /\ current_pool_order = NoOrder
       /\ order_dialog = "none"
       /\ open_dialogs = <<>>

\* C2 witness: the poll just closed candidate 1, which is gone from the pool.
C2_Witness ==
    /\ SuccessfulPoll
    /\ last_op.show
    /\ last_op.cur.id = 1
    /\ ~IdInSnapshot(1, last_op.response.data)
    /\ Len(emitted) = 1
    /\ emitted[1].type = "vanished"

\* C3: after the driver accepts or rejects the shown candidate the
\* reconciler is Idle: the showing flag is false and no candidate is
\* recorded.
C3_DecisionReturnsToIdle ==
    last_op.op \in {"accept", "reject"}
    => /\ ~show_pool_order
       /\ current_pool_order = NoOrder

\* C4: a successful poll whose snapshot still holds the shown candidate's id
\* emits nothing and leaves the candidate, the flag and the dialog as they
\* were.
C4_RepollIsNoOp ==
    [][(/\ last_op'.op = "poll"
        /\ last_op'.response.success
        /\ show_pool_order
        /\ current_pool_order /= NoOrder
        /\ IdInSnapshot(current_pool_order.id, last_op'.response.data))
       => /\ emitted' = <<>>
          /\ UNCHANGED <<show_pool_order, current_pool_order, order_dialog,
                         open_dialogs>>]_vars

\* C4 witness: a second poll returned the snapshot already stored, with the
\* candidate on screen still in it, and nothing was emitted.
C4_Witness ==
    /\ SuccessfulPoll
    /\ last_op.show
    /\ last_op.same
    /\ IdInSnapshot(last_op.cur.id, last_op.response.data)
    /\ open_dialogs = <<last_op.cur>>
    /\ emitted = <<>>

\* C5: a successful poll that finds the reconciler Idle shows the first
\* acceptable order of the snapshot, in server order, with exactly one
\* new-order event; with no acceptable order it stays Idle and emits nothing.
C5_IdleShowsFirstAcceptable ==
    (SuccessfulPoll /\ ~last_op.show)
    => LET first == FirstSpecAcceptable(last_op.response.data)
       IN IF first /= NoOrder
          THEN /\ show_pool_order
               /\ current_pool_order = first
               /\ open_dialogs = <<first>>
               /\ emitted = <<[type |-> "new_order", id |-> first.id]>>
          ELSE /\ ~show_pool_order
               /\ current_pool_order = NoOrder
               /\ open_dialogs = <<>>
               /\ emitted = <<>>

\* C5 witness: the snapshot's first order is not acceptable and its second
\* is, and the second is the one shown.
C5_Witness ==
    /\ SuccessfulPoll
    /\ ~last_op.show
    /\ Len(last_op.response.data) = 2
    /\ ~SpecAcceptable(last_op.response.data[1])
    /\ last_op.response.data[2].status = <<"NEW">>
    /\ current_pool_order = last_op.response.data[2]
    /\ emitted = <<[type |-> "new_order", id |-> current_pool_order.id]>>

----------------------------------------------------------------------------
(* Claims about the API client's login gate (SpecApi) *)

CalledLoggedOut == api_call.op \in AuthOps /\ ~api_call.logged

\* C6: an authenticated operation called while is_logged_in is false issues
\* no HTTP request.
C6_NoRequestWhenLoggedOut ==
    CalledLoggedOut => api_call.http = <<>>

\* C6 witness: accept_order was called on a service that is not logged in
\* although a failed login left it an auth header, and nothing was sent.
C6_Witness ==
    /\ api_call.op = "accept_order"
    /\ ~api_call.logged
    /\ api.auth_header /= None
    /\ api_call.http = <<>>

\* C7: an authenticated operation called while is_logged_in is false
\* returns success == false with the "not logged in" message.
C7_FailsWhenLoggedOut ==
    CalledLoggedOut
    => /\ ~api_call.result.success
       /\ api_call.result.message = "Nie zalogowano"

----------------------------------------------------------------------------
(* Claims about the retrying transport (SpecReq, SpecReqLive) *)

IsNetworkFailure(o) == o.kind \in {"client_error", "timeout"}

IsSuccessResponse(o) ==
    o.kind = "response" /\ o.status = 200 /\ o.body \in {"dict", "list"}

AllNetworkFailures(h) == \A k \in DOMAIN h : IsNetworkFailure(h[k])

\* h is N network-level failures followed by a success
FailuresThenSuccess(h) ==
    /\ Len(h) >= 1
    /\ IsSuccessResponse(h[Len(h)])
    /\ AllNetworkFailures(SubSeq(h, 1, Len(h) - 1))

Carries(message, part) == \E i \in DOMAIN message : message[i] = part

Finished == rq_pc = "done"

RetryBackoffState ==
    /\ \A k \in DOMAIN slept : slept[k] = retry_delay * (2 ^ (k - 1))
    /\ AllNetworkFailures(history) /\ ~Finished
       => /\ Len(history) <= retries
          /\ Len(slept) = Len(history)
    /\ Finished /\ FailuresThenSuccess(history)
       => /\ Len(history) - 1 <= retries
          /\ Len(slept) = Len(history) - 1
          /\ rq_result = Returned(200, history[Len(history)].body)
    /\ Finished /\ AllNetworkFailures(history)
       => /\ Len(history) = retries + 1
          /\ Len(slept) = retries
          /\ rq_result.t = "raise"
          /\ rq_result.class = "APIConnectionError"
          /\ rq_result.message[1] = "Failed after "
          /\ rq_result.message[2] = ToString(retries + 1)

\* C8: with N network-level failures followed by a success the call returns
\* the success response after N+1 attempts when retries >= N, and raises a
\* connection error after exactly retries+1 attempts when every attempt
\* fails; the wait before the retry that follows attempt k (0-based) is
\* retry_delay * 2^k; and a call that has started always ends.
C8_RetryWithBackoff ==
    /\ []RetryBackoffState
    /\ (rq_pc = "request") ~> Finished

\* C8 witness: retries = 2, two network failures, then a success returned
\* after waits of 1 and 2 seconds.
C8_Witness ==
    /\ Finished
    /\ retries = 2
    /\ Len(history) = 3
    /\ FailuresThenSuccess(history)
    /\ slept = <<1, 2>>
    /\ rq_result.t = "return"

Is401(o) == o.kind = "response" /\ o.status = 401

\* C9: a response with status 401 ends the call at once (it is the last
\* attempt) with an APIAuthenticationError that carries the server's error
\* message.
C9_UnauthorizedIsAuthError ==
    \A k \in DOMAIN history :
       Is401(history[k])
       => /\ k = Len(history)
          /\ Finished
          /\ rq_result.t = "raise"
          /\ rq_result.class = "APIAuthenticationError"
          /\ history[k].body = "dict_error"
             => Carries(rq_result.message, ServerError)

IsNotJson(o) ==
    o.kind = "response" /\ o.body \in {"invalid_json", "not_json_type"}

IsOtherHttpError(o) ==
    o.kind = "response" /\ o.status >= 400 /\ o.status /= 401

\* C10: a response with a status >= 400 other than 401, or with a body
\* that is not valid JSON, ends the call at once (it is the last attempt)
\* with an APIConnectionError that carries the status and the message, or
\* the invalid-JSON text.
C10_ProtocolErrorNotRetried ==
    \A k \in DOMAIN history :
       (IsOtherHttpError(history[k]) \/ IsNotJson(history[k]))
       => /\ k = Len(history)
          /\ Finished
          /\ rq_result.t = "raise"
          /\ rq_result.class = "APIConnectionError"
          /\ IF IsNotJson(history[k])
             THEN Carries(rq_result.message, "Invalid JSON response from ")
             ELSE /\ Carries(rq_result.message, ToString(history[k].status))
                  /\ history[k].body = "dict_error"
                     => Carries(rq_result.message, ServerError)

----------------------------------------------------------------------------
(* Claims about response normalisation (SpecNorm) *)

\* C11: check_order_pool turns each of the shapes {success:true, data:L},
\* {status:"success", orders:L} and {success:true, orders:L} into
\* {success:true, data:L} with L unchanged, and a response with
\* success false or without the list fields into {success:true, data:[]}.
C11_PoolShapesNormalised ==
    norm.op = "check_order_pool"
    => norm.result = [success |-> TRUE,
                      data |-> IF norm.shape \in 1..3 THEN JList(norm.list)
                               ELSE JList(<<>>)]

\* C11 witness: the third shape with the list [8, 7] came back as
\* {success:true, data:[8, 7]}.
C11_Witness ==
    /\ norm.op = "check_order_pool"
    /\ norm.shape = 3
    /\ norm.list = <<8, 7>>
    /\ norm.result.success
    /\ norm.result.data = JList(<<8, 7>>)

----------------------------------------------------------------------------
(* Claims about the polling schedule of MapScreen (SpecPool) *)

\* C12: the pool endpoint never has two fetches of the polling tick in
\* flight at once.
C12_NoOverlappingFetches == pool_inflight <= 1

\* the step is a run of MapScreen.check_order_pool after its fetch
PollCompletes == last_op'.op = "poll"

\* the step is a Clock tick of check_order_pool_sync
PollTick == last_op'.op \in {"poll_offline", "poll_start"}

\* C13: once the interval is cancelled no tick fires, and a fetch that was
\* in flight changes neither the snapshot nor the candidate, the dialog or
\* the notifications when it completes.
C13_CancelledPollDiscarded ==
    [][~pool_event
       => /\ ~PollTick
          /\ PollCompletes
             => /\ emitted' = <<>>
                /\ UNCHANGED <<pool_orders, show_pool_order,
                               current_pool_order, order_dialog,
                               open_dialogs>>]_vars

\* C14: a tick while the driver status is "offline" starts no fetch, emits
\* nothing and leaves the snapshot and the shown candidate as they were.
C14_OfflineTickIsNoOp ==
    [][(PollTick /\ driver_status = "offline")
       => /\ pool_inflight' = pool_inflight
          /\ emitted' = <<>>
          /\ UNCHANGED <<pool_orders, show_pool_order, current_pool_order,
                         order_dialog, open_dialogs>>]_vars

\* C14 witness: a tick ran while the driver was offline and no fetch is in
\* flight.
C14_Witness ==
    /\ last_op.op = "poll_offline"
    /\ driver_status = "offline"
    /\ pool_event
    /\ pool_inflight = 0

\* C15: after a successful poll the stored snapshot is the fetched list,
\* also on the poll that finds the shown candidate gone.
C15_SnapshotReplacedWholesale ==
    SuccessfulPoll => pool_orders = last_op.response.data

----------------------------------------------------------------------------
(* Claims about login, logout and auto_login (SpecApi) *)

C17_LogoutResets ==
    api_call.op = "logout"
    => /\ api_call.result.success
       /\ ~api.is_logged_in
       /\ api.auth_header = None
       /\ api.phone = None
       /\ api.password = None
       /\ api.base_url = None
       /\ api.driver_id = None

\* C17 witness: a logged-in session logged out, the notification was sent
\* and the store refused the deletion.
C17_Witness ==
    /\ api_call.op = "logout"
    /\ api_call.logged
    /\ api_call.http /= <<>>
    /\ api_call.deleted = 0
    /\ keyring.phone /= None
    /\ api.auth_header = None

\* C18: after a logout whose store deletions went through, none of the
\* entries phone, password and api_url is left in the credential store.
C18_LogoutClearsStore ==
    (api_call.op = "logout" /\ api_call.deleted = 2)
    => keyring = EmptyKeyring

CredentialsSaved == ~FalsyStr(keyring.phone) /\ ~FalsyStr(keyring.password)

\* C19: auto_login without a saved phone and password returns
\* {success:false, "no saved credentials"} with no request sent and the
\* session unchanged; with both saved (and the store readable) it runs
\* login's status check with exactly the saved phone and password.
C19_AutoLogin ==
    [][api_call'.op = "auto_login"
       => IF ~CredentialsSaved
          THEN /\ api_call'.result =
                     [success |-> FALSE,
                      message |-> "Brak zapisanych danych logowania"]
               /\ api_call'.http = <<>>
               /\ UNCHANGED <<api, keyring>>
          ELSE IF api_call'.http = <<>>
          THEN ~api_call'.read_ok
          ELSE /\ Len(api_call'.http) = 1
               /\ api_call'.http[1].endpoint =
                     Path("/api/driver2/status/check")
               /\ api_call'.http[1].auth =
                     Some(BasicAuth(keyring.phone[1], keyring.password[1]))
               /\ api'.phone = keyring.phone
               /\ api'.password = keyring.password
               /\ api_call'.result.success = api_call'.answered]_vars

\* C19 witness: only the phone is in the store and auto_login, reading it,
\* reported no saved credentials without sending anything.
C19_Witness ==
    /\ api_call.op = "auto_login"
    /\ api_call.http = <<>>
    /\ api_call.read_ok
    /\ keyring.phone /= None
    /\ keyring.password = None
    /\ ~api_call.result.success

----------------------------------------------------------------------------
(* Claims about the base URL (SpecUrl) *)

\* no surrounding blanks, an explicit scheme, no trailing slash
Normalized(u) ==
    /\ ~u.pad
    /\ u.scheme \in {"http://", "https://"}
    /\ u.slashes = 0

\* C20: whenever the session's base_url is set it is normalized: it begins
\* with http:// or https:// and has no trailing slash.
C20_BaseUrlNormalized ==
    api.base_url /= None => Normalized(api.base_url[1])

----------------------------------------------------------------------------
(* Claims about the session's frame (SpecApi) *)

\* C21: an endpoint operation leaves is_logged_in, auth_header, phone,
\* password, base_url and driver_id as they were, whether it succeeds or
\* fails.
C21_EndpointsKeepSession ==
    [][api_call'.op \in AuthOps => api' = api]_vars

\* C21 witness: accept_order was refused for a logged-in session on
\* taxi.example, which is still logged in on taxi.example.
C21_Witness ==
    /\ api_call.op = "accept_order"
    /\ api_call.logged
    /\ api_call.http /= <<>>
    /\ ~api_call.result.success
    /\ api.is_logged_in
    /\ api.base_url = Some(Url(FALSE, "https://", "taxi.example", 0))

----------------------------------------------------------------------------
(* Claims about failures of endpoint operations (SpecApi) *)

C24_LocationUpdateOneShot ==
    api_call.op = "update_location"
    => /\ Len(api_call.http) <= 1
       /\ api_call.transport \in {"error", "http_error"}
          => /\ ~api_call.result.success
             /\ "message" \in DOMAIN api_call.result

\* C24 witness: a location update was answered with an error page; one
\* request went out and the result is a failure.
C24_Witness ==
    /\ api_call.op = "update_location"
    /\ api_call.transport = "http_error"
    /\ Len(api_call.http) = 1
    /\ ~api_call.result.success

----------------------------------------------------------------------------
(* Claims about what public operations hand back (SpecUrl) *)

\* C23: no public operation raises to its caller, and every result it
\* returns has "success" and, when success is false, a "message".
C23_NoExceptionEscapes ==
    /\ "raised" \in DOMAIN api_call => ~api_call.raised
    /\ "result" \in DOMAIN api_call
       => /\ "success" \in DOMAIN api_call.result
          /\ ~api_call.result.success
             => "message" \in DOMAIN api_call.result

----------------------------------------------------------------------------
(* Claims about local validation (SpecCred) *)

\* the Authorization header of a request carries an empty phone or an
\* empty password
EmptyCredentials(request) ==
    /\ request.auth /= None
    /\ request.auth[1][2] = "" \/ request.auth[1][3] = ""

----------------------------------------------------------------------------
(* Claims about a poll that completes while a candidate is shown (SpecPool) *)

\* C28: a poll that completes while a candidate is shown presents no new
\* candidate: it leaves the candidate as it is when its id is in the
\* snapshot (or the poll failed), and otherwise only closes it, also when
\* the snapshot holds other acceptable orders.
C28_ShowingPollOnlyChecksPresence ==
    [][(last_op'.op = "poll" /\ show_pool_order)
       => /\ \A i \in DOMAIN emitted' : emitted'[i].type /= "new_order"
          /\ IF \/ ~last_op'.response.success
                \/ IdInSnapshot(current_pool_order.id,
                                last_op'.response.data)
             THEN UNCHANGED <<show_pool_order, current_pool_order,
                              open_dialogs, order_dialog>>
             ELSE /\ ~show_pool_order'
                  /\ current_pool_order' = NoOrder
                  /\ Len(open_dialogs') <= Len(open_dialogs)]_vars

\* the shown candidate vanished on a poll whose snapshot held another
\* acceptable order, and nothing was presented
C28_Witness ==
    /\ SuccessfulPoll
    /\ last_op.show
    /\ ~IdInSnapshot(last_op.cur.id, last_op.response.data)
    /\ FilterAcceptable(last_op.response.data) /= <<>>
    /\ ~show_pool_order
    /\ current_pool_order = NoOrder
    /\ emitted = <<[type |-> "vanished", id |-> last_op.cur.id]>>

----------------------------------------------------------------------------
(* Claims about the Authorization header (SpecApi) *)

\* C29: in every reachable session state auth_header is unset or is the
\* Basic header of the session's current phone and password.
C29_AuthHeaderMatchesCredentials ==
    \/ api.auth_header = None
    \/ /\ api.phone /= None
       /\ api.password /= None
       /\ api.auth_header = Some(BasicAuth(api.phone[1], api.password[1]))

\* a login with another password, made after a login whose password "pw"
\* was stored, left the header of the new pair
C29_Witness ==
    /\ api_call.op = "login"
    /\ keyring.password = Some("pw")
    /\ api.password = Some("other")
    /\ api.auth_header = Some(BasicAuth(api.phone[1], "other"))

----------------------------------------------------------------------------
(* Claims about a failed poll while a candidate is shown (SpecPool) *)

\* C30: a pool poll that fails at transport level or is answered with an
\* error while candidate o is shown does not close the candidate: no "order
\* no longer available" event, the reconciler stays in Showing(o) and the
\* stored pool snapshot is unchanged.
C30_FailedPollKeepsCandidate ==
    [][(/\ last_op'.op = "poll"
        /\ last_op'.transport /= "answered"
        /\ show_pool_order
        /\ current_pool_order /= NoOrder)
       => /\ UNCHANGED <<show_pool_order, current_pool_order, pool_orders>>
          /\ \A i \in DOMAIN emitted' : emitted'[i].type /= "vanished"]_vars

----------------------------------------------------------------------------
(* Claims about the reconciler after the driver's decision *)

\* the driver has accepted or rejected the dialog of the current candidate
DecidedOnCandidate ==
    order_dialog = "dismissed" /\ current_pool_order /= NoOrder

\* C33: once the driver has accepted or rejected candidate o, no later poll
\* emits an "order no longer available" event for o.
C33_NoVanishedAfterDecision ==
    [][(last_op'.op = "poll" /\ DecidedOnCandidate)
       => \A i \in DOMAIN emitted' :
             ~(/\ emitted'[i].type = "vanished"
               /\ emitted'[i].id = current_pool_order.id)]_vars

\* C34: while the driver is not offline, polls keep succeeding and every
\* snapshot holds an acceptable order, a state with no order dialog open is
\* followed by one in which a candidate is presented, also after an earlier
\* candidate was accepted or rejected.
C34_CandidateEventuallyPresented ==
    (driver_status /= "offline" /\ open_dialogs = <<>>)
        ~> (open_dialogs /= <<>>)

----------------------------------------------------------------------------
(* Claims about client-side order lists (SpecFixed) *)

----------------------------------------------------------------------------
(* Claims about the order monitoring of TaxiDriverApp (SpecApp) *)

\* C27: an order that stays in the pool is announced by a single "new
\* order" notification, whatever the poll ticks and their overlap: no
\* notification announces an order already announced and in every pool
\* answer since.
C27_OrderAnnouncedOnce ==
    [][app'.announced \cap app.notified = {}]_vars

----------------------------------------------------------------------------
(* Claims about the session after a failed login (SpecApi) *)

----------------------------------------------------------------------------
(* Claims about the credential round trip (SpecRound) *)

\* the store holds a phone, a password and a base URL
FullyStored == CredentialsSaved /\ ~Falsy(keyring.api_url)

----------------------------------------------------------------------------
(* Claims about the simulation timer of LocationService (SpecLoc) *)

\* C35: at most one simulation timer is scheduled at a time, and after
\* stop_location_updates() or cleanup() returns none remains scheduled.
C35_OneSimulationTimer ==
    /\ loc.scheduled <= 1
    /\ loc.op \in {"stop_location_updates", "cleanup"} => loc.scheduled = 0

----------------------------------------------------------------------------
(* Claims about location updates of the fixed MapScreen (SpecFixed) *)

\* C36: a location sample makes the screen send a location-update request
\* only while the driver status is "online" or "busy"; while the driver is
\* "offline" no location-update request is issued.
C36_LocationSentOnlyOnDuty ==
    [][(fixed'.op = "location" /\ fixed'.location_requests /= <<>>)
       => fixed.driver_status \in {"online", "busy"}]_vars

----------------------------------------------------------------------------
(* Claims about the lockout of LoginScreen (SpecLogin) *)

\* C37: once 5 login attempts have failed without a success in between,
\* every further submission is rejected locally without calling the API, so
\* at most 5 login attempts fail in a row; and a successful login resets
\* the attempt counter to 0.
C37_LoginLockout ==
    /\ ls.failures <= max_login_attempts
    /\ (ls.op = "safe_handle_login" /\ ls.failures >= max_login_attempts)
           => ~ls.started /\ ls.thread = "none"
    /\ ls.op = "handle_login_success" => ls.login_attempts = 0

\* a valid form is submitted after five failures and no thread is started
C37_Witness ==
    /\ ls.op = "safe_handle_login"
    /\ validate_form(ls)
    /\ ls.failures = max_login_attempts
    /\ ~ls.started
    /\ api_call.op = "login" /\ ~api_call.result.success

====
